---- MODULE Spec2Model ----
(***************************************************************************)
(* Survey draft reconciliation of the SD Elements MCP server.              *)
(*                                                                         *)
(* The client methods SDElementsClient.updateProjectSurvey and             *)
(* SDElementsClient.addAnswerToSurveyDraft (apiClient.ts) drive a remote   *)
(* survey draft through GET / PATCH / POST calls.  Every await of a remote *)
(* call is one step of the model; the remote answers each call with        *)
(* success, with an error (HTTP error or timeout) or, for a mutation, with *)
(* a success that changed nothing.                                         *)
(***************************************************************************)
EXTENDS Integers, Sequences, FiniteSets, TLC

VARIABLES
    rules,            \* remote: which answers each answer requires / is excluded by
    srvSelected,      \* remote: the set of answer ids selected in the project's draft
    srvCommitted,     \* remote: number of times the draft was published
    pc,               \* position of the running client call
    call,             \* "none" | "update" | "add": the client method that was called
    payload,          \* SurveyUpdatePayload of updateProjectSurvey
    draft,            \* local variable draft (last draft the call holds)
    targetIds,        \* new Set(payload.answers), in insertion order
    deselectIds,      \* new Set(payload.answers_to_deselect ?? []), in insertion order
    errors,           \* local variable errors
    selectedCount,
    deselectedCount,
    idx,              \* position of the running for-loop (1-based)
    result,           \* the returned object, once there is one
    thrown,           \* the error the call rejected with ("" while none)
    answerId,         \* addAnswerToSurveyDraft: parameter answerId
    autoResolve,      \* addAnswerToSurveyDraft: parameter autoResolve
    potentialPrereqs, \* addAnswerToSurveyDraft: ids of the filtered candidates
    dependenciesAdded,
    log,              \* history: the remote calls that have ended so far, in order
    faults,           \* history: calls on the project that did not succeed with effect
    str1,             \* calculateSimilarity: parameter str1
    str2,             \* calculateSimilarity: parameter str2
    scores,           \* calculateSimilarity: the values returned for (str1, str2) and (str2, str1)
    libraryAnswersCache, \* SDElementsClient.libraryAnswersCache (null until loaded)
    searchTexts,      \* findAnswersByText: parameter searchTexts
    fuzzyThreshold,   \* findAnswersByText: parameter fuzzyThreshold
    searchResults,    \* findAnswersByText: the returned record, as its entries in key order
    findPc,           \* position of the running findAnswersByText call
    loads,            \* loadLibraryAnswers calls in flight besides the one findAnswersByText awaits
    loadedLists,      \* history: the list each finished load produced, in order
    loadFailed,       \* history: the load findAnswersByText awaited was rejected by the remote
    tool,             \* "none" | "set" | "remove" | "add" | "commit" | "api": the tool handler that was called
    toolArgs,         \* the handler's arguments
    toolData,         \* the handler's local data, the object it hands to updateProjectSurvey
    toolResult,       \* the object the handler returned, once there is one
    httpEnv,          \* http.ts: the environment main() read (allowlist, insecure flag)
    sessions,         \* http.ts: the Map sessions, session id -> transport
    transports,       \* http.ts: the transports created so far, with their servers
    httpLast          \* history: the request the /mcp handler took last and its answer

\* the state of the text matcher and of the tool handlers
toolVars == <<str1, str2, scores, libraryAnswersCache, searchTexts, fuzzyThreshold,
              searchResults, findPc, loads, loadedLists, loadFailed, tool, toolArgs,
              toolData, toolResult>>

\* the state of the HTTP server
httpVars == <<httpEnv, sessions, transports, httpLast>>

vars == <<rules, srvSelected, srvCommitted, pc, call, payload, draft, targetIds,
          deselectIds, errors, selectedCount, deselectedCount, idx, result,
          thrown, answerId, autoResolve, potentialPrereqs, dependenciesAdded,
          log, faults, toolVars, httpVars>>

(***************************************************************************)
(* Bounds of the model.                                                    *)
(***************************************************************************)
MaxAnswers == 2       \* longest payload.answers
MaxDeselect == 2      \* longest payload.answers_to_deselect
MaxFaults == 1        \* remote calls per client call that fail or silently no-op
MaxTextLen == 3       \* longest string handed to calculateSimilarity
MaxCatalog == 2       \* most library answers in the catalog
MaxQueries == 2       \* longest searchTexts
MaxLoads == 2         \* loadLibraryAnswers calls besides the one findAnswersByText awaits

(***************************************************************************)
(* The remote draft holds the answers X, Y, Z in this order; N is an id    *)
(* the draft does not hold.  A rule set gives each answer its question,   *)
(* the answers it requires and the answers that exclude it.                *)
(***************************************************************************)
DraftOrder == <<"X", "Y", "Z">>
AnswerIds == {"X", "Y", "Z"}
Ids == AnswerIds \cup {"N"}

NoReq == [a \in AnswerIds |-> {}]
AllQ1 == [a \in AnswerIds |-> "Q1"]
\* (1) X requires Y, and Z belongs to another question;
\* (2) X requires Z;  (3) X requires Z, and selecting Y makes Z invalid
RuleSets ==
    { [question |-> [AllQ1 EXCEPT !["Z"] = "Q2"], req |-> [NoReq EXCEPT !["X"] = {"Y"}],
       excl |-> NoReq],
      [question |-> AllQ1, req |-> [NoReq EXCEPT !["X"] = {"Z"}], excl |-> NoReq],
      [question |-> AllQ1, req |-> [NoReq EXCEPT !["X"] = {"Z"}],
       excl |-> [NoReq EXCEPT !["Z"] = {"Y"}]] }

\* validity of an answer on the remote: its prerequisites are selected and
\* nothing that excludes it is
SrvValid(a, sel) ==
    /\ rules.req[a] \subseteq sel
    /\ rules.excl[a] \cap sel = {}

\* GET projects/{id}/survey/draft/ : the ordered list of answers
ServerDraft(sel) ==
    [i \in 1..Len(DraftOrder) |->
        [id |-> DraftOrder[i],
         question |-> rules.question[DraftOrder[i]],
         selected |-> DraftOrder[i] \in sel,
         valid |-> SrvValid(DraftOrder[i], sel)]]

\* outcomes of a remote call as request() reports them: "ok" resolves,
\* "fail" rejects (HTTP error, network error, timeout); "noop" resolves
\* although the remote state did not change
FetchOutcomes == {"ok", "fail"}
CommitOutcomes == {"ok", "fail"}
PatchOutcomes(id, want, sel) ==
    IF id \notin AnswerIds THEN {"fail"}
    ELSE IF want /\ ~SrvValid(id, sel) THEN {"fail", "noop"}
    ELSE {"ok", "noop", "fail"}

PatchEffect(id, want, outcome, sel) ==
    IF outcome # "ok" THEN sel
    ELSE IF want THEN sel \cup {id} ELSE sel \ {id}

Allowed(outcome) == outcome = "ok" \/ faults < MaxFaults
Charge(outcome) == IF outcome = "ok" THEN faults ELSE faults + 1

Resolves(outcome) == outcome # "fail"

(***************************************************************************)
(* Helpers that stand for JavaScript built-ins.                            *)
(***************************************************************************)
Range(s) == { s[i] : i \in 1..Len(s) }

SeqsUpTo(S, n) == UNION { [1..k -> S] : k \in 0..n }

\* new Set(array): the distinct elements in insertion order
RECURSIVE SetOf(_)
SetOf(s) ==
    IF s = <<>> THEN <<>>
    ELSE LET front == SetOf(SubSeq(s, 1, Len(s) - 1))
             last == s[Len(s)]
         IN IF last \in Range(front) THEN front ELSE Append(front, last)

\* array.filter(p).map(a => a.id) for p given as the set of indices kept
RECURSIVE IdsWhere(_, _)
IdsWhere(d, keep) ==
    IF d = <<>> THEN <<>>
    ELSE LET front == IdsWhere(SubSeq(d, 1, Len(d) - 1), keep)
         IN IF Len(d) \in keep THEN Append(front, d[Len(d)].id) ELSE front

\* draft.answers.find(a => a.id === id) !== undefined
InDraft(d, id) == \E i \in 1..Len(d) : d[i].id = id
\* draft.answers.find(a => a.id === id), for an id the draft holds
Find(d, id) == d[CHOOSE i \in 1..Len(d) : d[i].id = id /\ \A j \in 1..(i - 1) : d[j].id # id]

Null == [null |-> TRUE]
\* x.length ? x : null
OrNull(s) == IF Len(s) > 0 THEN [null |-> FALSE, items |-> s] ELSE [null |-> TRUE]
ItemsOf(n) == IF n.null THEN <<>> ELSE n.items

EmptyDraft == <<>>
NoResult == [returned |-> FALSE]
NoPayload == [answers |-> <<>>, answers_to_deselect |-> <<>>, survey_complete |-> FALSE]

\* one remote call: what it was, for which answer, how request() ended, and the
\* program point that issued it
Call(op, id, outcome) == [op |-> op, id |-> id, outcome |-> outcome, at |-> pc]
ErrorEntry(kind, id) == [kind |-> kind, id |-> id]

(***************************************************************************)
(* updateProjectSurvey                                                     *)
(***************************************************************************)
\* variant: the target ids re-sorted (by id) instead of kept in insertion order
IdRank(id) == CHOOSE k \in 1..5 : <<"N", "W", "X", "Y", "Z">>[k] = id
RECURSIVE SortedIds(_)
SortedIds(S) ==
    IF S = {} THEN <<>>
    ELSE LET m == CHOOSE x \in S : \A y \in S : IdRank(x) <= IdRank(y)
         IN <<m>> \o SortedIds(S \ {m})
TargetIdsSorted(answers) == SortedIds(Range(answers))

\* const targetIds = new Set(payload.answers)
TargetIdsOf(answers) == SetOf(answers)
\* const deselectIds = new Set(payload.answers_to_deselect ?? [])
DeselectIdsOf(list) == SetOf(list)

\* the initial fetch: .catch(() => ({ answers: [] }))
InitialDraft(outcome, fetched) == IF outcome = "ok" THEN fetched ELSE EmptyDraft

\* variant: the selected flag is not consulted
ShouldDeselectAny(d, id) == InDraft(d, id)

\* const exists = draft.answers.find((a) => a.id === id && a.selected)
ShouldDeselect(d, id) == \E i \in 1..Len(d) : d[i].id = id /\ d[i].selected

\* variant: the selected flag is not consulted
ShouldSelectAny(d, id) == InDraft(d, id)

\* const answer = draft.answers.find((a) => a.id === id);
\* if (answer && !answer.selected)
ShouldSelect(d, id) == InDraft(d, id) /\ ~Find(d, id).selected

\* where the call goes once the deselect loop has handled position i
AfterDeselect(i, nDeselect, nTarget) ==
    IF i < nDeselect THEN <<"uDeselect", i + 1>>
    ELSE IF nTarget > 0 THEN <<"uRefresh", 1>>
    ELSE <<"uVerify", 0>>

\* where the call goes once the select loop has handled position i
AfterSelect(i, nTarget) ==
    IF i < nTarget THEN <<"uRefresh", i + 1>> ELSE <<"uVerify", 0>>

\* variant: the initial fetch without its .catch
InitialFetchRejects(outcome, nDeselect, nTarget) ==
    IF outcome = "fail" THEN <<"thrown", 0>> ELSE AfterDeselect(0, nDeselect, nTarget)

\* the initial fetch never rejects (.catch): whatever its outcome the call goes
\* on to the deselect loop
AfterInitialFetch(outcome, nDeselect, nTarget) == AfterDeselect(0, nDeselect, nTarget)

\* variant: a rejected deselect is sent again
RetryFailedDeselect(outcome, i, nDeselect, nTarget) ==
    IF outcome = "fail" THEN <<"uDeselect", i>> ELSE AfterDeselect(i, nDeselect, nTarget)

\* variant: a failed patch ends the loop it is in
BreakOnFailure(outcome, goOn, leave) == IF outcome = "fail" THEN leave ELSE goOn

\* catch (e) { errors.push(...) } of the two patch calls: the catch block has
\* no break and no throw, so after a failed patch the for-loop goes on (goOn)
\* as after a successful one and does not leave the loop (leave)
OnCatch(outcome, goOn, leave) == goOn

\* try { await patch(); deselectedCount++ } catch { errors.push() } in the
\* deselect loop
AfterDeselectCall(outcome, i, nDeselect, nTarget) ==
    OnCatch(outcome, AfterDeselect(i, nDeselect, nTarget),
                     AfterDeselect(nDeselect, nDeselect, nTarget))

\* try { await patch(); selectedCount++ } catch { errors.push() } in the
\* select loop
AfterSelectCall(outcome, i, nTarget) ==
    OnCatch(outcome, AfterSelect(i, nTarget), AfterSelect(nTarget, nTarget))

\* catch { errors.push("Draft refresh failed"); continue; }
AfterRefreshFailure(i, nTarget) == AfterSelect(i, nTarget)

\* variant: the fetched draft is dropped and the loop keeps the one it had
StaleDraft(old, fetched) == old

\* draft = await this.get(...) at the head of a select iteration
RefreshedDraft(old, fetched) == fetched

\* variant: missing computed from what the loop believes it selected
MissingAssumed(targets, finalDraft) ==
    LET believed == { log[i].id : i \in { j \in 1..Len(log) :
                        log[j].op = "select" /\ log[j].outcome # "fail" } }
    IN SelectSeq(targets, LAMBDA id : id \notin believed)

\* const missingAnswers = [...targetIds].filter((id) => !finalSelectedIds.has(id))
MissingAnswers(targets, finalDraft) ==
    LET finalSelectedIds == { finalDraft[i].id : i \in { j \in 1..Len(finalDraft) : finalDraft[j].selected } }
    IN SelectSeq(targets, LAMBDA id : id \notin finalSelectedIds)

\* variant: success reports whether the reconciliation was clean
BuildResultStrict(targets, deselects, finalDraft, errs, nSel, nDesel) ==
    [returned |-> TRUE,
     success |-> errs = <<>> /\ MissingAnswers(targets, finalDraft) = <<>>,
     selectedCount |-> nSel,
     deselectedCount |-> nDesel,
     targetAnswers |-> targets,
     deselectedAnswers |-> OrNull(deselects),
     missingAnswers |-> OrNull(MissingAnswers(targets, finalDraft)),
     errors |-> OrNull(errs),
     draftCommitted |-> FALSE,
     commitError |-> FALSE,
     note |-> FALSE]

\* the result object built after the verification fetch
BuildResult(targets, deselects, finalDraft, errs, nSel, nDesel) ==
    [returned |-> TRUE,
     success |-> TRUE,
     selectedCount |-> nSel,
     deselectedCount |-> nDesel,
     targetAnswers |-> targets,
     deselectedAnswers |-> OrNull(deselects),
     missingAnswers |-> OrNull(MissingAnswers(targets, finalDraft)),
     errors |-> OrNull(errs),
     draftCommitted |-> FALSE,
     commitError |-> FALSE,
     note |-> FALSE]

\* variant: publish only a clean reconciliation
CommitOnlyIfClean(p, errs, missing) == p.survey_complete /\ errs = <<>> /\ missing = <<>>

\* if (payload.survey_complete)
CommitRequested(p, errs, missing) == p.survey_complete

StartUpdate ==
    /\ pc = "idle"
    /\ \E answers \in SeqsUpTo(Ids, MaxAnswers),
          toDeselect \in SeqsUpTo(Ids, MaxDeselect),
          complete \in BOOLEAN :
            payload' = [answers |-> answers,
                        answers_to_deselect |-> toDeselect,
                        survey_complete |-> complete]
    /\ call' = "update"
    /\ pc' = "uGetDraft"
    /\ UNCHANGED <<rules, srvSelected, srvCommitted, draft, targetIds, deselectIds,
                   errors, selectedCount, deselectedCount, idx, result, thrown,
                   answerId, autoResolve, potentialPrereqs, dependenciesAdded,
                   log, faults>>
    /\ UNCHANGED <<toolVars, httpVars>>

\* 1. Get Draft
UpdGetDraft ==
    /\ pc = "uGetDraft"
    /\ \E o \in FetchOutcomes :
        /\ Allowed(o)
        /\ draft' = InitialDraft(o, ServerDraft(srvSelected))
        /\ log' = Append(log, Call("fetch", "", o))
        /\ faults' = Charge(o)
    /\ targetIds' = TargetIdsOf(payload.answers)
    /\ deselectIds' = DeselectIdsOf(payload.answers_to_deselect)
    /\ errors' = <<>>
    /\ selectedCount' = 0
    /\ deselectedCount' = 0
    /\ LET next == AfterInitialFetch(log'[Len(log')].outcome, Len(deselectIds'), Len(targetIds'))
       IN pc' = next[1] /\ idx' = next[2]
    /\ UNCHANGED <<rules, srvSelected, srvCommitted, call, payload, result, thrown,
                   answerId, autoResolve, potentialPrereqs, dependenciesAdded>>
    /\ UNCHANGED <<toolVars, httpVars>>

\* 2. Deselect explicitly
UpdDeselect ==
    /\ pc = "uDeselect"
    /\ LET id == deselectIds[idx]
       IN \/ /\ ShouldDeselect(draft, id)
             /\ \E o \in PatchOutcomes(id, FALSE, srvSelected) :
                 LET next == AfterDeselectCall(o, idx, Len(deselectIds), Len(targetIds))
                 IN /\ Allowed(o)
                    /\ srvSelected' = PatchEffect(id, FALSE, o, srvSelected)
                    /\ log' = Append(log, Call("deselect", id, o))
                    /\ faults' = Charge(o)
                    /\ IF Resolves(o)
                       THEN /\ deselectedCount' = deselectedCount + 1
                            /\ errors' = errors
                       ELSE /\ deselectedCount' = deselectedCount
                            /\ errors' = Append(errors, ErrorEntry("FailedToDeselect", id))
                    /\ pc' = next[1]
                    /\ idx' = next[2]
          \/ LET next == AfterDeselect(idx, Len(deselectIds), Len(targetIds))
             IN /\ ~ShouldDeselect(draft, id)
                /\ UNCHANGED <<srvSelected, log, faults, deselectedCount, errors>>
                /\ pc' = next[1]
                /\ idx' = next[2]
    /\ UNCHANGED <<rules, srvCommitted, call, payload, draft, targetIds, deselectIds,
                   selectedCount, result, thrown, answerId, autoResolve,
                   potentialPrereqs, dependenciesAdded>>
    /\ UNCHANGED <<toolVars, httpVars>>

\* 3. Select sequentially: the refresh at the head of each iteration
UpdRefresh ==
    /\ pc = "uRefresh"
    /\ \E o \in FetchOutcomes :
        /\ Allowed(o)
        /\ log' = Append(log, Call("fetch", "", o))
        /\ faults' = Charge(o)
        /\ IF Resolves(o)
           THEN /\ draft' = RefreshedDraft(draft, ServerDraft(srvSelected))
                /\ errors' = errors
                /\ pc' = "uSelect"
                /\ idx' = idx
           ELSE LET next == AfterRefreshFailure(idx, Len(targetIds))
                IN /\ draft' = draft
                   /\ errors' = Append(errors, ErrorEntry("DraftRefreshFailed", ""))
                   /\ pc' = next[1]
                   /\ idx' = next[2]
    /\ UNCHANGED <<rules, srvSelected, srvCommitted, call, payload, targetIds,
                   deselectIds, selectedCount, deselectedCount, result, thrown,
                   answerId, autoResolve, potentialPrereqs, dependenciesAdded>>
    /\ UNCHANGED <<toolVars, httpVars>>

\* 3. Select sequentially: the rest of the iteration
UpdSelect ==
    /\ pc = "uSelect"
    /\ LET id == targetIds[idx]
       IN \/ /\ ShouldSelect(draft, id)
             /\ \E o \in PatchOutcomes(id, TRUE, srvSelected) :
                 LET next == AfterSelectCall(o, idx, Len(targetIds))
                 IN /\ Allowed(o)
                    /\ srvSelected' = PatchEffect(id, TRUE, o, srvSelected)
                    /\ log' = Append(log, Call("select", id, o))
                    /\ faults' = Charge(o)
                    /\ IF Resolves(o)
                       THEN /\ selectedCount' = selectedCount + 1
                            /\ errors' = errors
                       ELSE /\ selectedCount' = selectedCount
                            /\ errors' = Append(errors, ErrorEntry("FailedToSelect", id))
                    /\ pc' = next[1]
                    /\ idx' = next[2]
          \/ LET next == AfterSelect(idx, Len(targetIds))
             IN /\ ~ShouldSelect(draft, id)
                /\ UNCHANGED <<srvSelected, log, faults, selectedCount, errors>>
                /\ pc' = next[1]
                /\ idx' = next[2]
    /\ UNCHANGED <<rules, srvCommitted, call, payload, draft, targetIds, deselectIds,
                   deselectedCount, result, thrown, answerId, autoResolve,
                   potentialPrereqs, dependenciesAdded>>
    /\ UNCHANGED <<toolVars, httpVars>>

\* 4. Verify results, and the result object
UpdVerify ==
    /\ pc = "uVerify"
    /\ \E o \in FetchOutcomes :
        /\ Allowed(o)
        /\ log' = Append(log, Call("fetch", "", o))
        /\ faults' = Charge(o)
        /\ IF Resolves(o)
           THEN LET finalDraft == ServerDraft(srvSelected)
                    built == BuildResult(targetIds, deselectIds, finalDraft, errors,
                                         selectedCount, deselectedCount)
                IN /\ draft' = draft
                   /\ thrown' = thrown
                   /\ IF CommitRequested(payload, errors, ItemsOf(built.missingAnswers))
                      THEN /\ result' = built
                           /\ pc' = "uCommit"
                      ELSE /\ result' = [built EXCEPT !.note = TRUE]
                           /\ pc' = "done"
           ELSE /\ thrown' = "FetchFailed"
                /\ pc' = "thrown"
                /\ UNCHANGED <<draft, result>>
    /\ UNCHANGED <<rules, srvSelected, srvCommitted, call, payload, targetIds,
                   deselectIds, errors, selectedCount, deselectedCount, idx,
                   answerId, autoResolve, potentialPrereqs, dependenciesAdded>>
    /\ UNCHANGED <<toolVars, httpVars>>

\* 5. Commit if requested
UpdCommit ==
    /\ pc = "uCommit"
    /\ \E o \in CommitOutcomes :
        /\ Allowed(o)
        /\ log' = Append(log, Call("commit", "", o))
        /\ faults' = Charge(o)
        /\ IF Resolves(o)
           THEN /\ srvCommitted' = srvCommitted + 1
                /\ result' = [result EXCEPT !.draftCommitted = TRUE]
           ELSE /\ srvCommitted' = srvCommitted
                /\ result' = [result EXCEPT !.commitError = TRUE]
    /\ pc' = "done"
    /\ UNCHANGED <<rules, srvSelected, call, payload, draft, targetIds, deselectIds,
                   errors, selectedCount, deselectedCount, idx, thrown, answerId,
                   autoResolve, potentialPrereqs, dependenciesAdded>>
    /\ UNCHANGED <<toolVars, httpVars>>

(***************************************************************************)
(* addAnswerToSurveyDraft                                                  *)
(***************************************************************************)
\* draft.answers.filter((a) => a.valid && !a.selected && a.question === questionId)
PotentialPrereqs(d, questionId) ==
    IdsWhere(d, { i \in 1..Len(d) :
                    d[i].valid /\ ~d[i].selected /\ d[i].question = questionId })

\* variant: the target is sent after the first candidate whatever its validity
TargetFound(d, id) == InDraft(d, id)

\* if (target && target.valid), after the re-fetch inside the loop
TargetUnblocked(d, id) == InDraft(d, id) /\ Find(d, id).valid

\* variant: a sibling that did not unblock the target is deselected again
RolledBack(sel, prereq, unblocked) == IF unblocked THEN sel ELSE sel \ {prereq}

\* the draft's selection after the re-check: the loop body has no other mutation
\* than the two selects, whatever the re-fetched draft shows
KeptAfterRecheck(sel, prereq, unblocked) == sel

\* variant: an iteration that ends without returning ends the loop with its error
FirstFailureEnds(i, nPrereq) ==
    IF i > 0 THEN <<"thrown", 0, "MutationFailed">>
    ELSE IF nPrereq > 0 THEN <<"aPrereq", 1, "">>
    ELSE <<"thrown", 0, "DependenciesUnresolved">>

\* where the call goes when the loop body at position i ends without returning:
\* the next candidate, or the throw after the loop
AfterPrereq(i, nPrereq) ==
    IF i < nPrereq THEN <<"aPrereq", i + 1, "">>
    ELSE <<"thrown", 0, "DependenciesUnresolved">>

\* an optional field of a returned object: left out, or present with a value
Undefined == [undefined |-> TRUE]
Defined(v) == [undefined |-> FALSE, value |-> v]
\* { success: true, dependenciesAdded?, message? }
AddResult(message, deps) ==
    [returned |-> TRUE, success |-> TRUE, message |-> message, dependenciesAdded |-> deps]

StartAdd ==
    /\ pc = "idle"
    /\ answerId' \in Ids
    /\ autoResolve' \in BOOLEAN
    /\ call' = "add"
    /\ pc' = "aGetDraft"
    /\ UNCHANGED <<rules, srvSelected, srvCommitted, payload, draft, targetIds,
                   deselectIds, errors, selectedCount, deselectedCount, idx, result,
                   thrown, potentialPrereqs, dependenciesAdded, log, faults>>
    /\ UNCHANGED <<toolVars, httpVars>>

\* the first fetch and the checks up to the first mutation
AddGetDraft ==
    /\ pc = "aGetDraft"
    /\ \E o \in FetchOutcomes :
        /\ Allowed(o)
        /\ log' = Append(log, Call("fetch", "", o))
        /\ faults' = Charge(o)
        /\ IF ~Resolves(o)
           THEN /\ pc' = "thrown"
                /\ thrown' = "FetchFailed"
                /\ UNCHANGED <<draft, result, potentialPrereqs, idx>>
           ELSE LET d == ServerDraft(srvSelected)
                IN /\ draft' = d
                   /\ IF ~InDraft(d, answerId)
                      THEN /\ pc' = "thrown"
                           /\ thrown' = "NotFound"
                           /\ UNCHANGED <<result, potentialPrereqs, idx>>
                      ELSE IF Find(d, answerId).selected
                      THEN /\ pc' = "done"
                           /\ result' = AddResult(Defined("Already selected"), Undefined)
                           /\ UNCHANGED <<thrown, potentialPrereqs, idx>>
                      ELSE IF ~Find(d, answerId).valid
                      THEN IF ~autoResolve
                           THEN /\ pc' = "thrown"
                                /\ thrown' = "AnswerInvalid"
                                /\ UNCHANGED <<result, potentialPrereqs, idx>>
                           ELSE LET cands == PotentialPrereqs(d, Find(d, answerId).question)
                                    next == AfterPrereq(0, Len(cands))
                                IN /\ potentialPrereqs' = cands
                                   /\ pc' = next[1]
                                   /\ idx' = next[2]
                                   /\ thrown' = next[3]
                                   /\ result' = result
                      ELSE /\ pc' = "aDirect"
                           /\ UNCHANGED <<result, thrown, potentialPrereqs, idx>>
    /\ dependenciesAdded' = <<>>
    /\ UNCHANGED <<rules, srvSelected, srvCommitted, call, payload, targetIds,
                   deselectIds, errors, selectedCount, deselectedCount, answerId,
                   autoResolve>>
    /\ UNCHANGED <<toolVars, httpVars>>

\* Try selecting prereq
AddPrereq ==
    /\ pc = "aPrereq"
    /\ LET id == potentialPrereqs[idx]
           next == AfterPrereq(idx, Len(potentialPrereqs))
       IN \E o \in PatchOutcomes(id, TRUE, srvSelected) :
            /\ Allowed(o)
            /\ srvSelected' = PatchEffect(id, TRUE, o, srvSelected)
            /\ log' = Append(log, Call("select", id, o))
            /\ faults' = Charge(o)
            /\ IF Resolves(o)
               THEN /\ dependenciesAdded' = Append(dependenciesAdded, id)
                    /\ pc' = "aRecheck"
                    /\ UNCHANGED <<idx, thrown>>
               ELSE /\ dependenciesAdded' = dependenciesAdded
                    /\ pc' = next[1]
                    /\ idx' = next[2]
                    /\ thrown' = next[3]
    /\ UNCHANGED <<rules, srvCommitted, call, payload, draft, targetIds, deselectIds,
                   errors, selectedCount, deselectedCount, result, answerId,
                   autoResolve, potentialPrereqs>>
    /\ UNCHANGED <<toolVars, httpVars>>

\* Re-check target validity
AddRecheck ==
    /\ pc = "aRecheck"
    /\ LET next == AfterPrereq(idx, Len(potentialPrereqs))
       IN \E o \in FetchOutcomes :
            /\ Allowed(o)
            /\ log' = Append(log, Call("fetch", "", o))
            /\ faults' = Charge(o)
            /\ srvSelected' = KeptAfterRecheck(srvSelected, potentialPrereqs[idx],
                                                Resolves(o) /\ TargetUnblocked(ServerDraft(srvSelected), answerId))
            /\ IF Resolves(o)
               THEN /\ draft' = ServerDraft(srvSelected)
                    /\ IF TargetUnblocked(draft', answerId)
                       THEN /\ pc' = "aTarget"
                            /\ UNCHANGED <<idx, thrown>>
                       ELSE /\ pc' = next[1]
                            /\ idx' = next[2]
                            /\ thrown' = next[3]
               ELSE /\ draft' = draft
                    /\ pc' = next[1]
                    /\ idx' = next[2]
                    /\ thrown' = next[3]
    /\ UNCHANGED <<rules, srvCommitted, call, payload, targetIds,
                   deselectIds, errors, selectedCount, deselectedCount, result,
                   answerId, autoResolve, potentialPrereqs, dependenciesAdded>>
    /\ UNCHANGED <<toolVars, httpVars>>

\* the select of the target once a candidate made it valid
AddTarget ==
    /\ pc = "aTarget"
    /\ LET next == AfterPrereq(idx, Len(potentialPrereqs))
       IN \E o \in PatchOutcomes(answerId, TRUE, srvSelected) :
            /\ Allowed(o)
            /\ srvSelected' = PatchEffect(answerId, TRUE, o, srvSelected)
            /\ log' = Append(log, Call("select", answerId, o))
            /\ faults' = Charge(o)
            /\ IF Resolves(o)
               THEN /\ result' = AddResult(Defined("Resolved dependencies"), Defined(dependenciesAdded))
                    /\ pc' = "done"
                    /\ UNCHANGED <<idx, thrown>>
               ELSE /\ result' = result
                    /\ pc' = next[1]
                    /\ idx' = next[2]
                    /\ thrown' = next[3]
    /\ UNCHANGED <<rules, srvCommitted, call, payload, draft, targetIds, deselectIds,
                   errors, selectedCount, deselectedCount, answerId, autoResolve,
                   potentialPrereqs, dependenciesAdded>>
    /\ UNCHANGED <<toolVars, httpVars>>

\* Direct selection
AddDirect ==
    /\ pc = "aDirect"
    /\ \E o \in PatchOutcomes(answerId, TRUE, srvSelected) :
        /\ Allowed(o)
        /\ srvSelected' = PatchEffect(answerId, TRUE, o, srvSelected)
        /\ log' = Append(log, Call("select", answerId, o))
        /\ faults' = Charge(o)
        /\ IF Resolves(o)
           THEN /\ result' = AddResult(Undefined, Undefined)
                /\ pc' = "done"
                /\ thrown' = thrown
           ELSE /\ result' = result
                /\ pc' = "thrown"
                /\ thrown' = "MutationFailed"
    /\ UNCHANGED <<rules, srvCommitted, call, payload, draft, targetIds, deselectIds,
                   errors, selectedCount, deselectedCount, idx, answerId, autoResolve,
                   potentialPrereqs, dependenciesAdded>>
    /\ UNCHANGED <<toolVars, httpVars>>

(***************************************************************************)
(* Strings.  A string is a sequence of characters; the characters of the   *)
(* model are two lower-case letters, an upper-case letter and a blank.     *)
(***************************************************************************)
Alphabet == {"a", "b", "A", " "}
Strings == SeqsUpTo(Alphabet, MaxTextLen)

\* String.prototype.toLowerCase
LowerChar(c) == IF c = "A" THEN "a" ELSE c
ToLowerCase(s) == [i \in 1..Len(s) |-> LowerChar(s[i])]
\* s.replace(/\s+/g, "")
StripWhitespace(s) == SelectSeq(s, LAMBDA c : c # " ")
\* s.includes(t)
Includes(s, t) ==
    \E k \in 0..(Len(s) - Len(t)) : \A i \in 1..Len(t) : s[k + i] = t[i]

\* a number n / d with d > 0, in lowest terms
RECURSIVE GCD(_, _)
GCD(m, n) == IF n = 0 THEN m ELSE GCD(n, m % n)
Rat(n, d) == IF n = 0 THEN <<0, 1>> ELSE <<n \div GCD(n, d), d \div GCD(n, d)>>
Less(x, y) == x[1] * y[2] < y[1] * x[2]
AtLeast(x, y) == ~Less(x, y)

(***************************************************************************)
(* calculateSimilarity                                                     *)
(***************************************************************************)
\* s.substring(i, i + 2), with positions counted from 1
Bigram(s, i) == <<s[i], s[i + 1]>>
\* the Map bigrams1 after the first loop: the count of every bigram of s1
Bigrams1(s1) ==
    [g \in Alphabet \X Alphabet |->
        Cardinality({ i \in 1..(Len(s1) - 1) : Bigram(s1, i) = g })]

\* variant: a matched bigram is not taken out of the map
KeepCount(counts, g) == counts

\* bigrams1.set(bigram, count - 1)
ConsumeCount(counts, g) == [counts EXCEPT ![g] = @ - 1]

\* the second loop, from position i of s2 on: the number of bigrams of s2 that
\* find an unused occurrence in the map
RECURSIVE Intersection(_, _, _)
Intersection(s2, i, counts) ==
    IF i > Len(s2) - 1 THEN 0
    ELSE IF counts[Bigram(s2, i)] > 0
         THEN 1 + Intersection(s2, i + 1, ConsumeCount(counts, Bigram(s2, i)))
         ELSE Intersection(s2, i + 1, counts)

CalculateSimilarity(a, b) ==
    LET s1 == StripWhitespace(ToLowerCase(a))
        s2 == StripWhitespace(ToLowerCase(b))
    IN IF s1 = s2 THEN Rat(1, 1)
       ELSE IF Len(s1) < 2 \/ Len(s2) < 2 THEN Rat(0, 1)
       ELSE Rat(2 * Intersection(s2, 1, Bigrams1(s1)), (Len(s1) - 1) + (Len(s2) - 1))

NoScores == [computed |-> FALSE]

\* calculateSimilarity(str1, str2) and calculateSimilarity(str2, str1)
Compare ==
    /\ ~scores.computed
    /\ scores' = [computed |-> TRUE,
                  forth |-> CalculateSimilarity(str1, str2),
                  back |-> CalculateSimilarity(str2, str1)]
    /\ UNCHANGED <<rules, srvSelected, srvCommitted, pc, call, payload, draft,
                   targetIds, deselectIds, errors, selectedCount, deselectedCount,
                   idx, result, thrown, answerId, autoResolve, potentialPrereqs,
                   dependenciesAdded, log, faults>>
    /\ UNCHANGED <<str1, str2, libraryAnswersCache, searchTexts, fuzzyThreshold,
                   searchResults, findPc, loads, loadedLists, loadFailed, tool,
                   toolArgs, toolData, toolResult>>
    /\ UNCHANGED httpVars

(***************************************************************************)
(* findAnswersByText                                                       *)
(***************************************************************************)
\* a library answer (SDElementsSurveyAnswer)
Item(id, text) == [id |-> id, text |-> text, display_text |-> "Q"]
\* an AnswerMatch
Match(item, matchType, similarity) ==
    [null |-> FALSE, id |-> item.id, text |-> item.text, question |-> item.display_text,
     matchType |-> matchType, similarity |-> similarity]

\* this.libraryAnswersCache || []
CacheOrEmpty(c) == IF c.null THEN <<>> ELSE c.items
Loaded(items) == [null |-> FALSE, items |-> items]

\* map.set(key, value) of a Map kept as its entries in insertion order: a key
\* the map holds keeps its place and gets the new value
MapSet(m, key, value) ==
    IF \E i \in 1..Len(m) : m[i].key = key
    THEN [i \in 1..Len(m) |-> IF m[i].key = key THEN [key |-> key, value |-> value] ELSE m[i]]
    ELSE Append(m, [key |-> key, value |-> value])
\* results[key], for a record kept as its entries in insertion order
Get(r, key) ==
    IF \E i \in 1..Len(r) : r[i].key = key
    THEN r[CHOOSE i \in 1..Len(r) : r[i].key = key].value
    ELSE Null
\* if (results[key])
Found(r, key) == ~Get(r, key).null

\* new Map(searchTexts.map((t) => [t.toLowerCase(), t]))
RECURSIVE SearchMap(_)
SearchMap(texts) ==
    IF texts = <<>> THEN <<>>
    ELSE LET t == texts[Len(texts)]
         IN MapSet(SearchMap(SubSeq(texts, 1, Len(texts) - 1)), ToLowerCase(t), t)

\* the body of the inner loop of pass 1 for one item and one entry of searchMap
MatchItem(results, item, entry) ==
    LET itemText == ToLowerCase(item.text)
        searchLower == entry.key
        originalKey == entry.value
    IN IF Found(results, originalKey) THEN results
       ELSE IF itemText = searchLower
            THEN MapSet(results, originalKey, Match(item, "exact", Rat(1, 1)))
       ELSE IF Includes(itemText, searchLower)
            THEN MapSet(results, originalKey,
                        Match(item, "substring", CalculateSimilarity(searchLower, itemText)))
       ELSE results

\* for (const [searchLower, originalKey] of searchMap), from entry j on
RECURSIVE InnerLoop(_, _, _, _)
InnerLoop(results, item, searchMap, j) ==
    IF j > Len(searchMap) THEN results
    ELSE InnerLoop(MatchItem(results, item, searchMap[j]), item, searchMap, j + 1)

\* 1. Exact & Substring Match: for (const item of cache), from item i on
RECURSIVE ExactAndSubstring(_, _, _, _)
ExactAndSubstring(results, cache, searchMap, i) ==
    IF i > Len(cache) THEN results
    ELSE ExactAndSubstring(InnerLoop(results, cache[i], searchMap, 1), cache, searchMap, i + 1)

\* variant: a later entry of equal score replaces the one kept
ImprovesOrTies(score, maxScore, threshold) ==
    AtLeast(score, maxScore) /\ AtLeast(score, threshold)

\* if (score > maxScore && score >= fuzzyThreshold)
Improves(score, maxScore, threshold) ==
    Less(maxScore, score) /\ AtLeast(score, threshold)

\* the inner loop of pass 2 from item i on; best = [bestMatch, maxScore]
RECURSIVE BestMatch(_, _, _, _, _)
BestMatch(keyLower, cache, threshold, i, best) ==
    IF i > Len(cache) THEN best.bestMatch
    ELSE LET score == CalculateSimilarity(keyLower, ToLowerCase(cache[i].text))
         IN IF Improves(score, best.maxScore, threshold)
            THEN BestMatch(keyLower, cache, threshold, i + 1,
                           [bestMatch |-> Match(cache[i], "fuzzy", score), maxScore |-> score])
            ELSE BestMatch(keyLower, cache, threshold, i + 1, best)

\* 2. Fuzzy Match (for remaining): for (const key of searchTexts), from key k on
RECURSIVE Fuzzy(_, _, _, _, _)
Fuzzy(results, cache, texts, threshold, k) ==
    IF k > Len(texts) THEN results
    ELSE IF Found(results, texts[k]) THEN Fuzzy(results, cache, texts, threshold, k + 1)
    ELSE Fuzzy(MapSet(results, texts[k],
                      BestMatch(ToLowerCase(texts[k]), cache, threshold, 1,
                                [bestMatch |-> Null, maxScore |-> Rat(0, 1)])),
               cache, texts, threshold, k + 1)

\* lines 716-775: the record returned for the cache value c
FindAnswersByText(c, texts, threshold) ==
    LET cache == CacheOrEmpty(c)
    IN Fuzzy(ExactAndSubstring(<<>>, cache, SearchMap(texts), 1), cache, texts, threshold, 1)

(***************************************************************************)
(* loadLibraryAnswers, and findAnswersByText when it has to load           *)
(***************************************************************************)
\* the library answers that are the answers X, Y, Z of the project's survey
ToolCatalog ==
    << Item("X", <<"a", "a">>), Item("Y", <<"b", "b">>), Item("Z", <<"a", "b">>) >>
\* GET library/answers/ : the remote answers with one of the versions of the
\* library (the second holds answers that are not in the project's survey), or
\* the request is rejected
LibraryVersions ==
    { ToolCatalog,
      << Item("A1", <<"b", "b">>), Item("A2", <<"a", "b", "b">>) >> }
LoadOutcomes == FetchOutcomes

\* variant: a rejected request is not told from one that delivered a list
ListWhateverOutcome(outcome, results) == results

\* the list a load produces: res.results || [], and [] in the catch
ListLoaded(outcome, results) == IF outcome = "ok" THEN results ELSE <<>>

\* variant: the cache is filled entry by entry and read before the last one
CachePartlyFilled(list) == Loaded(SubSeq(list, 1, Len(list) - 1))

\* this.libraryAnswersCache = <the list>: one assignment of the whole list
CacheAssigned(list) == Loaded(list)

\* loadLibraryAnswers is called (cache warm-up of the server start, or a tool)
\* and its request is sent
StartLoad ==
    /\ loads + Len(loadedLists) < MaxLoads
    /\ loads' = loads + 1
    /\ UNCHANGED <<rules, srvSelected, srvCommitted, pc, call, payload, draft,
                   targetIds, deselectIds, errors, selectedCount, deselectedCount,
                   idx, result, thrown, answerId, autoResolve, potentialPrereqs,
                   dependenciesAdded, log, faults>>
    /\ UNCHANGED <<str1, str2, scores, libraryAnswersCache, searchTexts, fuzzyThreshold,
                   searchResults, findPc, loadedLists, loadFailed, tool, toolArgs,
                   toolData, toolResult>>
    /\ UNCHANGED httpVars

\* the request of a running loadLibraryAnswers ends and the cache is assigned
LoadDone ==
    /\ loads > 0
    /\ \E o \in LoadOutcomes, results \in LibraryVersions :
        /\ o = "fail" => results = CHOOSE v \in LibraryVersions : TRUE
        /\ libraryAnswersCache' = CacheAssigned(ListLoaded(o, results))
        /\ loadedLists' = Append(loadedLists, ListLoaded(o, results))
        /\ log' = Append(log, Call("library", "", o))
    /\ loads' = loads - 1
    /\ UNCHANGED <<rules, srvSelected, srvCommitted, pc, call, payload, draft,
                   targetIds, deselectIds, errors, selectedCount, deselectedCount,
                   idx, result, thrown, answerId, autoResolve, potentialPrereqs,
                   dependenciesAdded, faults>>
    /\ UNCHANGED <<str1, str2, scores, searchTexts, fuzzyThreshold, searchResults,
                   findPc, loadFailed, tool, toolArgs, toolData, toolResult>>
    /\ UNCHANGED httpVars

\* if (!this.libraryAnswersCache) await this.loadLibraryAnswers(): the request
\* of the call's own load is sent
FindUncached ==
    /\ findPc = "idle"
    /\ libraryAnswersCache.null
    /\ findPc' = "fLoading"
    /\ UNCHANGED <<rules, srvSelected, srvCommitted, pc, call, payload, draft,
                   targetIds, deselectIds, errors, selectedCount, deselectedCount,
                   idx, result, thrown, answerId, autoResolve, potentialPrereqs,
                   dependenciesAdded, log, faults>>
    /\ UNCHANGED <<str1, str2, scores, libraryAnswersCache, searchTexts, fuzzyThreshold,
                   searchResults, loads, loadedLists, loadFailed, tool, toolArgs,
                   toolData, toolResult>>
    /\ UNCHANGED httpVars

\* the load findAnswersByText awaits ends: the cache is assigned, also when the
\* request was rejected, and the load resolves
FindLoaded ==
    /\ findPc = "fLoading"
    /\ \E o \in LoadOutcomes, results \in LibraryVersions :
        /\ o = "fail" => results = CHOOSE v \in LibraryVersions : TRUE
        /\ libraryAnswersCache' = CacheAssigned(ListLoaded(o, results))
        /\ loadedLists' = Append(loadedLists, ListLoaded(o, results))
        /\ loadFailed' = (o = "fail")
        /\ log' = Append(log, Call("library", "", o))
    /\ findPc' = "fResume"
    /\ UNCHANGED <<rules, srvSelected, srvCommitted, pc, call, payload, draft,
                   targetIds, deselectIds, errors, selectedCount, deselectedCount,
                   idx, result, thrown, answerId, autoResolve, potentialPrereqs,
                   dependenciesAdded, faults>>
    /\ UNCHANGED <<str1, str2, scores, searchTexts, fuzzyThreshold, searchResults,
                   loads, tool, toolArgs, toolData, toolResult>>
    /\ UNCHANGED httpVars

\* findAnswersByText goes on after its await: lines 716-775 in one step
FindResume ==
    /\ findPc = "fResume"
    /\ searchResults' = FindAnswersByText(libraryAnswersCache, searchTexts, fuzzyThreshold)
    /\ findPc' = "done"
    /\ UNCHANGED <<rules, srvSelected, srvCommitted, pc, call, payload, draft,
                   targetIds, deselectIds, errors, selectedCount, deselectedCount,
                   idx, result, thrown, answerId, autoResolve, potentialPrereqs,
                   dependenciesAdded, log, faults>>
    /\ UNCHANGED <<str1, str2, scores, libraryAnswersCache, searchTexts, fuzzyThreshold,
                   loads, loadedLists, loadFailed, tool, toolArgs, toolData, toolResult>>
    /\ UNCHANGED httpVars

\* findAnswersByText with the catalog in the cache: no await, one step
FindCached ==
    /\ findPc = "idle"
    /\ ~libraryAnswersCache.null
    /\ searchResults' = FindAnswersByText(libraryAnswersCache, searchTexts, fuzzyThreshold)
    /\ findPc' = "done"
    /\ UNCHANGED <<rules, srvSelected, srvCommitted, pc, call, payload, draft,
                   targetIds, deselectIds, errors, selectedCount, deselectedCount,
                   idx, result, thrown, answerId, autoResolve, potentialPrereqs,
                   dependenciesAdded, log, faults>>
    /\ UNCHANGED <<str1, str2, scores, libraryAnswersCache, searchTexts, fuzzyThreshold,
                   loads, loadedLists, loadFailed, tool, toolArgs, toolData, toolResult>>
    /\ UNCHANGED httpVars

(***************************************************************************)
(* The tool handlers set_project_survey_by_text and                        *)
(* remove_survey_answers_by_text (surveys.ts), which are also the modes    *)
(* replace and remove of op mutateByText of the survey tool (compact.ts).  *)
(***************************************************************************)
\* for (const [text, info] of Object.entries(searchResults)):
\* if (info?.id) answerIds.push(info.id) else notFound.push(text)
RECURSIVE MatchedIds(_)
MatchedIds(results) ==
    IF results = <<>> THEN <<>>
    ELSE LET front == MatchedIds(SubSeq(results, 1, Len(results) - 1))
             last == results[Len(results)]
         IN IF last.value.null THEN front ELSE Append(front, last.value.id)
RECURSIVE NotFound(_)
NotFound(results) ==
    IF results = <<>> THEN <<>>
    ELSE LET front == NotFound(SubSeq(results, 1, Len(results) - 1))
             last == results[Len(results)]
         IN IF last.value.null THEN Append(front, last.key) ELSE front

\* GET projects/{id}/survey/ : the answers of the project's survey, the ids
\* selected in it
SurveyAnswers(sel) == SelectSeq(DraftOrder, LAMBDA id : id \in sel)

\* variant: every current answer is deselected, also one that is set again
AllCurrent(current, answerIds) == SetOf(current)

\* [...currentAnswerIds].filter((id) => !newAnswerIds.has(id))
ToDeselect(current, answerIds) ==
    SelectSeq(SetOf(current), LAMBDA id : id \notin Range(answerIds))

\* variant: the handler goes on although texts are unmatched
NeverRejects(notFound) == FALSE

\* if (notFound.length > 0)
Rejects(notFound) == Len(notFound) > 0

\* { error: `Could not find answers for: ${notFound.join(", ")}`, search_results }
ErrorResult(notFound, results) ==
    [returned |-> TRUE, success |-> FALSE, error |-> Defined(notFound), search_results |-> results]

\* the object handed to updateProjectSurvey, as its SurveyUpdatePayload:
\* payload.answers_to_deselect ?? [], and a survey_complete left out is falsy
PayloadOf(data) ==
    [answers |-> data.answers,
     answers_to_deselect |->
        IF data.answers_to_deselect.undefined THEN <<>> ELSE data.answers_to_deselect.value,
     survey_complete |-> data.survey_complete]

\* the texts the handlers are called with
ToolTexts == { <<"a", "a">>, <<"b", "b">>, <<"a", "b">>, <<"b", "a">> }

\* set_project_survey_by_text is called and calls findAnswersByText
StartSet ==
    /\ pc = "idle" /\ tool = "none"
    /\ tool' = "set"
    /\ \E texts \in SeqsUpTo(ToolTexts, MaxQueries) \ {<<>>},
          replace_all \in BOOLEAN, complete \in BOOLEAN :
            /\ toolArgs' = [texts |-> texts, replace_all |-> replace_all,
                            survey_complete |-> complete]
            /\ searchTexts' = texts
    /\ findPc' = "idle"
    /\ pc' = "tFind"
    /\ UNCHANGED <<rules, srvSelected, srvCommitted, call, payload, draft, targetIds,
                   deselectIds, errors, selectedCount, deselectedCount, idx, result,
                   thrown, answerId, autoResolve, potentialPrereqs, dependenciesAdded,
                   log, faults>>
    /\ UNCHANGED <<str1, str2, scores, libraryAnswersCache, fuzzyThreshold,
                   searchResults, loads, loadedLists, loadFailed, toolData,
                   toolResult>>
    /\ UNCHANGED httpVars

\* set_project_survey_by_text from the return of findAnswersByText to its next
\* remote call or its return
SetFind ==
    /\ pc = "tFind" /\ tool = "set" /\ findPc = "done"
    /\ LET answerIds == MatchedIds(searchResults)
           notFound == NotFound(searchResults)
           data == [answers |-> answerIds, answers_to_deselect |-> Undefined,
                    survey_complete |-> toolArgs.survey_complete]
       IN IF Rejects(notFound)
          THEN /\ toolResult' = ErrorResult(notFound, searchResults)
               /\ pc' = "tDone"
               /\ UNCHANGED <<toolData, payload, call>>
          ELSE IF toolArgs.replace_all
          THEN /\ pc' = "tSurvey"
               /\ UNCHANGED <<toolData, payload, call, toolResult>>
          ELSE /\ toolData' = data
               /\ payload' = PayloadOf(data)
               /\ call' = "update"
               /\ pc' = "uGetDraft"
               /\ toolResult' = toolResult
    /\ UNCHANGED <<rules, srvSelected, srvCommitted, draft, targetIds,
                   deselectIds, errors, selectedCount, deselectedCount, idx, result,
                   thrown, answerId, autoResolve, potentialPrereqs, dependenciesAdded,
                   log, faults>>
    /\ UNCHANGED <<str1, str2, scores, libraryAnswersCache, searchTexts, fuzzyThreshold,
                   searchResults, findPc, loads, loadedLists, loadFailed, tool, toolArgs>>
    /\ UNCHANGED httpVars

\* if (replace_all): getProjectSurvey, and the deselect list
SetSurvey ==
    /\ pc = "tSurvey" /\ tool = "set"
    /\ \E o \in FetchOutcomes :
        /\ Allowed(o)
        /\ log' = Append(log, Call("survey", "", o))
        /\ faults' = Charge(o)
        /\ IF Resolves(o)
           THEN LET answerIds == MatchedIds(searchResults)
                    toDeselect == ToDeselect(SurveyAnswers(srvSelected), answerIds)
                    data == [answers |-> answerIds,
                             answers_to_deselect |->
                                IF Len(toDeselect) > 0 THEN Defined(toDeselect) ELSE Undefined,
                             survey_complete |-> toolArgs.survey_complete]
                IN /\ toolData' = data
                   /\ payload' = PayloadOf(data)
                   /\ call' = "update"
                   /\ pc' = "uGetDraft"
                   /\ thrown' = thrown
           ELSE /\ pc' = "thrown"
                /\ thrown' = "FetchFailed"
                /\ UNCHANGED <<toolData, payload, call>>
    /\ UNCHANGED <<rules, srvSelected, srvCommitted, draft, targetIds,
                   deselectIds, errors, selectedCount, deselectedCount, idx, result,
                   answerId, autoResolve, potentialPrereqs, dependenciesAdded>>
    /\ UNCHANGED <<str1, str2, scores, libraryAnswersCache, searchTexts, fuzzyThreshold,
                   searchResults, findPc, loads, loadedLists, loadFailed, tool,
                   toolArgs, toolResult>>
    /\ UNCHANGED httpVars

StartRemove ==
    /\ pc = "idle" /\ tool = "none"
    /\ tool' = "remove"
    /\ \E texts \in SeqsUpTo(ToolTexts, MaxQueries) \ {<<>>} :
            toolArgs' = [texts |-> texts, replace_all |-> FALSE, survey_complete |-> FALSE]
    /\ pc' = "tSurvey"
    /\ UNCHANGED <<rules, srvSelected, srvCommitted, call, payload, draft, targetIds,
                   deselectIds, errors, selectedCount, deselectedCount, idx, result,
                   thrown, answerId, autoResolve, potentialPrereqs, dependenciesAdded,
                   log, faults>>
    /\ UNCHANGED <<str1, str2, scores, libraryAnswersCache, searchTexts, fuzzyThreshold,
                   searchResults, findPc, loads, loadedLists, loadFailed, toolData,
                   toolResult>>
    /\ UNCHANGED httpVars

\* remove_survey_answers_by_text: getProjectSurvey has ended; the handler keeps
\* the current answer ids and calls findAnswersByText
RemoveSurvey ==
    /\ pc = "tSurvey" /\ tool = "remove"
    /\ \E o \in FetchOutcomes :
        /\ Allowed(o)
        /\ log' = Append(log, Call("survey", "", o))
        /\ faults' = Charge(o)
        /\ IF Resolves(o)
           THEN /\ toolData' = [answers |-> SurveyAnswers(srvSelected),
                                answers_to_deselect |-> Undefined,
                                survey_complete |-> FALSE]
                /\ searchTexts' = toolArgs.texts
                /\ findPc' = "idle"
                /\ pc' = "tFind"
                /\ thrown' = thrown
           ELSE /\ pc' = "thrown"
                /\ thrown' = "FetchFailed"
                /\ UNCHANGED <<searchTexts, findPc, toolData>>
    /\ UNCHANGED <<rules, srvSelected, srvCommitted, call, payload, draft, targetIds,
                   deselectIds, errors, selectedCount, deselectedCount, idx, result,
                   answerId, autoResolve, potentialPrereqs, dependenciesAdded>>
    /\ UNCHANGED <<str1, str2, scores, libraryAnswersCache, fuzzyThreshold,
                   searchResults, loads, loadedLists, loadFailed, tool, toolArgs,
                   toolResult>>
    /\ UNCHANGED httpVars

\* remove_survey_answers_by_text from the return of findAnswersByText to its
\* call of updateProjectSurvey: the data it hands over
RemoveFind ==
    /\ pc = "tFind" /\ tool = "remove" /\ findPc = "done"
    /\ LET data == [toolData EXCEPT
                        !.answers_to_deselect = Defined(MatchedIds(searchResults))]
       IN /\ toolData' = data
          /\ payload' = PayloadOf(data)
          /\ call' = "update"
          /\ pc' = "uGetDraft"
    /\ UNCHANGED <<rules, srvSelected, srvCommitted, draft, targetIds,
                   deselectIds, errors, selectedCount, deselectedCount, idx, result,
                   thrown, answerId, autoResolve, potentialPrereqs, dependenciesAdded,
                   log, faults>>
    /\ UNCHANGED <<str1, str2, scores, libraryAnswersCache, searchTexts, fuzzyThreshold,
                   searchResults, findPc, loads, loadedLists, loadFailed, tool, toolArgs,
                   toolResult>>
    /\ UNCHANGED httpVars

\* the handler's return once updateProjectSurvey has returned
ToolReturn ==
    /\ pc = "done" /\ tool # "none"
    /\ toolResult' =
         IF tool = "set"
         THEN [returned |-> TRUE, success |-> TRUE, error |-> Undefined,
               matched_answers |-> searchResults, answer_ids_used |-> toolData.answers,
               replace_all |-> toolArgs.replace_all, update_result |-> result]
         ELSE [returned |-> TRUE, success |-> TRUE, error |-> Undefined,
               ids_deselected |-> toolData.answers_to_deselect.value,
               not_found |-> NotFound(searchResults),
               remaining_answer_count |->
                    Len(toolData.answers) - Len(toolData.answers_to_deselect.value),
               update_result |-> result]
    /\ pc' = "tDone"
    /\ UNCHANGED <<rules, srvSelected, srvCommitted, call, payload, draft, targetIds,
                   deselectIds, errors, selectedCount, deselectedCount, idx, result,
                   thrown, answerId, autoResolve, potentialPrereqs, dependenciesAdded,
                   log, faults>>
    /\ UNCHANGED <<str1, str2, scores, libraryAnswersCache, searchTexts, fuzzyThreshold,
                   searchResults, findPc, loads, loadedLists, loadFailed, tool,
                   toolArgs, toolData>>
    /\ UNCHANGED httpVars

(***************************************************************************)
(* The tool handler add_survey_answers_by_text (surveys.ts), which is also *)
(* the mode add of op mutateByText of the survey tool (compact.ts).        *)
(***************************************************************************)
\* array.indexOf(x) + 1, for an x the array holds
IndexOf(s, x) == CHOOSE k \in 1..Len(s) : s[k] = x /\ \A m \in 1..(k - 1) : s[m] # x

\* answer_texts_to_add[answerIds.indexOf(answerId)]
FailedText(texts, answerIds, id) == texts[IndexOf(answerIds, id)]

\* x.length > 0 ? x : undefined
OrUndefined(s) == IF Len(s) > 0 THEN Defined(s) ELSE Undefined

\* the handler's result, from its locals
AddByTextResult(data, results) ==
    [returned |-> TRUE,
     success |-> Len(data.addedAnswers) > 0,
     added_count |-> Len(data.addedAnswers),
     added_answers |-> data.addedAnswers,
     failed_answers |-> OrUndefined(data.failedAnswers),
     not_found |-> OrUndefined(data.notFound),
     search_results |-> results]

\* add_survey_answers_by_text is called: await client.loadLibraryAnswers(), the
\* request is sent
StartAddByText ==
    /\ pc = "idle" /\ tool = "none"
    /\ tool' = "add"
    /\ \E texts \in SeqsUpTo(ToolTexts, MaxQueries) \ {<<>>} :
            toolArgs' = [texts |-> texts, replace_all |-> FALSE, survey_complete |-> FALSE]
    /\ pc' = "tLoad"
    /\ UNCHANGED <<rules, srvSelected, srvCommitted, call, payload, draft, targetIds,
                   deselectIds, errors, selectedCount, deselectedCount, idx, result,
                   thrown, answerId, autoResolve, potentialPrereqs, dependenciesAdded,
                   log, faults>>
    /\ UNCHANGED <<str1, str2, scores, libraryAnswersCache, searchTexts, fuzzyThreshold,
                   searchResults, findPc, loads, loadedLists, loadFailed, toolData,
                   toolResult>>
    /\ UNCHANGED httpVars

\* the loadLibraryAnswers call the handler awaits has ended: the cache is
\* assigned, also when the request was rejected; the handler goes on in a
\* later step, with its call of findAnswersByText (FindCached: the cache is set)
AddByTextLoaded ==
    /\ pc = "tLoad" /\ tool = "add"
    /\ \E o \in LoadOutcomes, results \in LibraryVersions :
        /\ o = "fail" => results = CHOOSE v \in LibraryVersions : TRUE
        /\ libraryAnswersCache' = CacheAssigned(ListLoaded(o, results))
        /\ loadedLists' = Append(loadedLists, ListLoaded(o, results))
        /\ log' = Append(log, Call("library", "", o))
    /\ searchTexts' = toolArgs.texts
    /\ findPc' = "idle"
    /\ pc' = "tFind"
    /\ UNCHANGED <<rules, srvSelected, srvCommitted, call, payload, draft, targetIds,
                   deselectIds, errors, selectedCount, deselectedCount, idx, result,
                   thrown, answerId, autoResolve, potentialPrereqs, dependenciesAdded,
                   faults>>
    /\ UNCHANGED <<str1, str2, scores, fuzzyThreshold, searchResults,
                   loads, loadFailed, tool, toolArgs, toolData, toolResult>>
    /\ UNCHANGED httpVars

\* the handler goes on after its await of findAnswersByText, with the record
\* the search returned (the cache may have been assigned again since):
\* answerIds and notFound, and the first addAnswerToSurveyDraft call, or the
\* return when no text matched.  toolData holds the handler's locals, the
\* position i of its loop and, as history, the ids whose addition failed
AddByTextFind ==
    /\ pc = "tFind" /\ tool = "add" /\ findPc = "done"
    /\ LET found == searchResults
           data == [answerIds |-> MatchedIds(found), notFound |-> NotFound(found),
                    addedAnswers |-> <<>>, failedAnswers |-> <<>>, failedIds |-> <<>>,
                    i |-> 1]
       IN /\ toolData' = data
          /\ IF data.answerIds = <<>>
             THEN /\ toolResult' = AddByTextResult(data, found)
                  /\ pc' = "tDone"
                  /\ UNCHANGED <<call, answerId, autoResolve>>
             ELSE /\ call' = "add"
                  /\ answerId' = data.answerIds[1]
                  /\ autoResolve' = TRUE
                  /\ pc' = "aGetDraft"
                  /\ toolResult' = toolResult
    /\ UNCHANGED <<rules, srvSelected, srvCommitted, payload, draft, targetIds,
                   deselectIds, errors, selectedCount, deselectedCount, idx, result,
                   thrown, potentialPrereqs, dependenciesAdded, log, faults>>
    /\ UNCHANGED <<str1, str2, scores, libraryAnswersCache, searchTexts, fuzzyThreshold,
                   searchResults, findPc, loads, loadedLists, loadFailed, tool, toolArgs>>
    /\ UNCHANGED httpVars

\* an addAnswerToSurveyDraft call of the loop has returned or thrown: the
\* try/catch around it, then the next call or the handler's return
AddByTextNext ==
    /\ tool = "add" /\ pc \in {"done", "thrown"}
    /\ LET id == toolData.answerIds[toolData.i]
           data == IF pc = "done"
                   THEN [toolData EXCEPT !.addedAnswers = Append(@, id), !.i = @ + 1]
                   ELSE [toolData EXCEPT
                            !.failedAnswers =
                                Append(@, [text |-> FailedText(toolArgs.texts,
                                                               toolData.answerIds, id),
                                           error |-> thrown]),
                            !.failedIds = Append(@, id),
                            !.i = @ + 1]
       IN /\ toolData' = data
          /\ IF data.i > Len(data.answerIds)
             THEN /\ toolResult' = AddByTextResult(data, searchResults)
                  /\ pc' = "tDone"
                  /\ UNCHANGED <<answerId, result, thrown, draft, potentialPrereqs,
                                 dependenciesAdded, idx>>
             ELSE /\ answerId' = data.answerIds[data.i]
                  /\ pc' = "aGetDraft"
                  /\ result' = NoResult
                  /\ thrown' = ""
                  /\ draft' = EmptyDraft
                  /\ potentialPrereqs' = <<>>
                  /\ dependenciesAdded' = <<>>
                  /\ idx' = 0
                  /\ toolResult' = toolResult
    /\ UNCHANGED <<rules, srvSelected, srvCommitted, call, payload, targetIds,
                   deselectIds, errors, selectedCount, deselectedCount, autoResolve,
                   log, faults>>
    /\ UNCHANGED <<str1, str2, scores, libraryAnswersCache, searchTexts, fuzzyThreshold,
                   searchResults, findPc, loads, loadedLists, loadFailed, tool,
                   toolArgs>>
    /\ UNCHANGED httpVars

(***************************************************************************)
(* The tool handlers commit_survey_draft (surveys.ts; op commitDraft of the *)
(* survey tool, compact.ts) and api_request (generic.ts), with the client  *)
(* functions commitSurveyDraft and apiRequest they call.                   *)
(***************************************************************************)
\* the requests api_request is called with: GET and POST of
\* projects/{id}/survey/draft/, PATCH of projects/{id}/survey/draft/{answer}/
\* with { selected }, and every method on an endpoint outside the project's
\* draft.  What the remote does with PUT or DELETE of the draft is not part of
\* the repository, so these two methods go to the other endpoint only.
ApiRequests ==
    { [method |-> "GET", endpoint |-> "draft", id |-> "", selected |-> FALSE],
      [method |-> "POST", endpoint |-> "draft", id |-> "", selected |-> FALSE] }
    \cup { [method |-> "PATCH", endpoint |-> "answer", id |-> id, selected |-> want] :
                id \in Ids, want \in BOOLEAN }
    \cup { [method |-> m, endpoint |-> "other", id |-> "", selected |-> FALSE] :
                m \in {"GET", "POST", "PUT", "PATCH", "DELETE"} }

\* commit_survey_draft is called: commitSurveyDraft sends
\* POST projects/{id}/survey/draft/ and the handler awaits the response
CommitSurveyDraft ==
    /\ pc = "idle" /\ tool = "none"
    /\ tool' = "commit"
    /\ toolArgs' = [method |-> "POST", endpoint |-> "draft", id |-> "", selected |-> FALSE]
    /\ pc' = "tRequest"
    /\ UNCHANGED <<rules, srvSelected, srvCommitted, call, payload, draft, targetIds,
                   deselectIds, errors, selectedCount, deselectedCount, idx, result,
                   thrown, answerId, autoResolve, potentialPrereqs, dependenciesAdded,
                   log, faults>>
    /\ UNCHANGED <<str1, str2, scores, libraryAnswersCache, searchTexts, fuzzyThreshold,
                   searchResults, findPc, loads, loadedLists, loadFailed, toolData,
                   toolResult>>
    /\ UNCHANGED httpVars

\* api_request is called: apiRequest sends the request and the handler awaits
\* the response
ApiRequest ==
    /\ pc = "idle" /\ tool = "none"
    /\ tool' = "api"
    /\ toolArgs' \in ApiRequests
    /\ pc' = "tRequest"
    /\ UNCHANGED <<rules, srvSelected, srvCommitted, call, payload, draft, targetIds,
                   deselectIds, errors, selectedCount, deselectedCount, idx, result,
                   thrown, answerId, autoResolve, potentialPrereqs, dependenciesAdded,
                   log, faults>>
    /\ UNCHANGED <<str1, str2, scores, libraryAnswersCache, searchTexts, fuzzyThreshold,
                   searchResults, findPc, loads, loadedLists, loadFailed, toolData,
                   toolResult>>
    /\ UNCHANGED httpVars

\* the response of the request commit_survey_draft or api_request awaits: the
\* remote acts on the request, request() resolves or rejects, and the handler
\* returns the result or throws
RequestDone ==
    /\ pc = "tRequest" /\ tool \in {"commit", "api"}
    /\ LET req == toolArgs
           op == CASE req.endpoint = "other" -> "other"
                   [] req.method = "GET" -> "fetch"
                   [] req.method = "POST" -> "commit"
                   [] req.selected -> "select"
                   [] OTHER -> "deselect"
       IN \E o \in IF req.endpoint = "answer"
                   THEN PatchOutcomes(req.id, req.selected, srvSelected)
                   ELSE FetchOutcomes :
            /\ Allowed(o)
            /\ log' = Append(log, Call(op, req.id, o))
            /\ faults' = Charge(o)
            /\ srvCommitted' = IF op = "commit" /\ Resolves(o)
                               THEN srvCommitted + 1 ELSE srvCommitted
            /\ srvSelected' = IF req.endpoint = "answer"
                              THEN PatchEffect(req.id, req.selected, o, srvSelected)
                              ELSE srvSelected
            /\ IF Resolves(o)
               THEN \* return jsonToolResult(result)
                    /\ toolResult' = [returned |-> TRUE, success |-> TRUE]
                    /\ pc' = "tDone"
                    /\ thrown' = thrown
               ELSE /\ toolResult' = toolResult
                    /\ pc' = "thrown"
                    /\ thrown' = IF tool = "commit" THEN "CommitFailed"
                                 ELSE "RequestFailed"
    /\ UNCHANGED <<rules, call, payload, draft, targetIds, deselectIds,
                   errors, selectedCount, deselectedCount, idx, result, answerId,
                   autoResolve, potentialPrereqs, dependenciesAdded>>
    /\ UNCHANGED <<str1, str2, scores, libraryAnswersCache, searchTexts, fuzzyThreshold,
                   searchResults, findPc, loads, loadedLists, loadFailed, tool, toolArgs,
                   toolData>>
    /\ UNCHANGED httpVars

(***************************************************************************)
(* HTTP mode (http.ts): the /mcp handler, its session map, and the         *)
(* transports of the MCP SDK it creates.                                   *)
(***************************************************************************)
MaxSessions == 2      \* transports the server creates

\* a string value; Null stands for null and Undefined for a missing field
Str(v) == [null |-> FALSE, undefined |-> FALSE, value |-> v]
Missing == [null |-> FALSE, undefined |-> TRUE]
IsString(x) == ~x.undefined

\* what new URL(text) gives: the fields normalizeSdeHost reads, or a throw
Url(protocol, username, search, pathname, origin) ==
    [throws |-> FALSE, protocol |-> protocol, username |-> username, password |-> "",
     search |-> search, hash |-> "", pathname |-> pathname, origin |-> origin]
NoUrl == [throws |-> TRUE]

\* a host text as a client or the environment gives it: the text, the text
\* trimmed, and the URL the trimmed text parses to
HostText(raw, trimmed, url) == [raw |-> raw, trimmed |-> trimmed, url |-> url]
Hosts ==
    [plain |-> HostText(" https://sde.example ", "https://sde.example",
                        Url("https:", "", "", "/", "https://sde.example")),
     upper |-> HostText("HTTPS://SDE.EXAMPLE/", "HTTPS://SDE.EXAMPLE/",
                        Url("https:", "", "", "/", "https://sde.example")),
     http |-> HostText("http://sde.example", "http://sde.example",
                       Url("http:", "", "", "/", "http://sde.example")),
     other |-> HostText("https://other.example", "https://other.example",
                        Url("https:", "", "", "/", "https://other.example")),
     path |-> HostText("https://sde.example/api", "https://sde.example/api",
                       Url("https:", "", "", "/api", "https://sde.example")),
     user |-> HostText("https://u@sde.example", "https://u@sde.example",
                       Url("https:", "u", "", "/", "https://sde.example")),
     query |-> HostText("https://sde.example?x=1", "https://sde.example?x=1",
                        Url("https:", "", "?x=1", "/", "https://sde.example")),
     noScheme |-> HostText("sde.example", "sde.example", NoUrl),
     blank |-> HostText("  ", "", NoUrl),
     empty |-> HostText("", "", NoUrl)]
HostTexts == { Hosts[k] : k \in DOMAIN Hosts }

\* normalizeSdeHost(value): the origin, or null
NormalizeSdeHost(value, allowInsecure) ==
    IF value.trimmed = "" THEN Null
    ELSE IF value.url.throws THEN Null
    ELSE LET parsed == value.url
         IN IF parsed.protocol # "https:" /\ ~(allowInsecure /\ parsed.protocol = "http:")
            THEN Null
            ELSE IF parsed.username # "" \/ parsed.password # "" THEN Null
            ELSE IF parsed.search # "" \/ parsed.hash # "" THEN Null
            ELSE IF parsed.pathname # "" /\ parsed.pathname # "/" THEN Null
            ELSE [null |-> FALSE, value |-> parsed.origin]

\* readWhitelist(): the set of normalized entries of the comma-separated list,
\* or a throw (main() does not start)
ReadWhitelist(entries, allowInsecure) ==
    LET normalized == [i \in 1..Len(entries) |-> NormalizeSdeHost(entries[i], allowInsecure)]
        invalidEntries == { i \in 1..Len(entries) :
                              normalized[i].null /\ entries[i].trimmed # "" }
        normalizedEntries == { normalized[i].value :
                                 i \in { j \in 1..Len(entries) : ~normalized[j].null } }
    IN IF entries = <<>> \/ invalidEntries # {} \/ normalizedEntries = {}
       THEN [throws |-> TRUE]
       ELSE [throws |-> FALSE, set |-> normalizedEntries]

\* const whitelist = readWhitelist(), for the environment of the running server
Whitelist == ReadWhitelist(httpEnv.allowlist, httpEnv.allowInsecure).set

\* a ?? b
OrElse(a, b) == IF a.undefined THEN b ELSE a

\* readSdeCredsFromRequest(req): { host, apiKey } or null
ReadSdeCredsFromRequest(req, allowInsecure) ==
    LET headerHost == OrElse(req.headers.sde_host, req.headers.x_sde_host)
        headerApiKey == OrElse(req.headers.sde_api_key, req.headers.x_sde_api_key)
        host == IF IsString(headerHost) THEN headerHost
                ELSE IF IsString(req.body.sde_host) THEN req.body.sde_host
                ELSE IF IsString(req.body.params.sde_host) THEN req.body.params.sde_host
                ELSE Null
        apiKey == IF IsString(headerApiKey) THEN headerApiKey
                  ELSE IF IsString(req.body.sde_api_key) THEN req.body.sde_api_key
                  ELSE IF IsString(req.body.params.sde_api_key) THEN req.body.params.sde_api_key
                  ELSE Null
    IN IF host.null \/ apiKey.null THEN Null
       ELSE IF host.value.raw = "" \/ apiKey.value = "" THEN Null
       ELSE LET normalizedHost == NormalizeSdeHost(host.value, allowInsecure)
            IN IF normalizedHost.null THEN Null
               ELSE [null |-> FALSE, host |-> normalizedHost.value, apiKey |-> apiKey.value]

\* req.method === "POST" && isInitializeRequest(req.body)
IsInitRequest(req) == req.method = "POST" /\ req.body.method = "initialize"

\* if (sessionId) entry = sessions.get(sessionId): the transport, or 0 for none
EntryOf(map, sessionId) ==
    IF IsString(sessionId) /\ sessionId.value # "" /\ sessionId.value \in DOMAIN map
    THEN map[sessionId.value]
    ELSE 0

\* variant: a request without a session is taken for an initialize request
NeverBadRequest(entry, isInitRequest) == FALSE

\* if (!entry) { if (!isInitRequest) { res.status(400) ...
BadRequest(entry, isInitRequest) == entry = 0 /\ ~isInitRequest

\* variant: the allowlist is not consulted
AnyHostAllowed(whitelist, creds) == TRUE

\* whitelist.has(creds.host)
HostAllowed(whitelist, creds) == creds.host \in whitelist

\* sessions.set(sid, entry) and sessions.delete(sid)
SessionSet(map, sid, t) == [k \in DOMAIN map \cup {sid} |-> IF k = sid THEN t ELSE map[k]]
SessionDelete(map, sid) == [k \in DOMAIN map \ {sid} |-> map[k]]

\* randomUUID(): an id no session had before; the t-th transport gets the t-th id
SessionIds == [t \in 1..MaxSessions |-> <<"uuid-1", "uuid-2", "uuid-3", "uuid-4">>[t]]

\* the request bodies, headers and requests of the clients
NoBody == [method |-> "", sde_host |-> Missing, sde_api_key |-> Missing,
           params |-> [sde_host |-> Missing, sde_api_key |-> Missing]]
NoCredHeaders == [sde_host |-> Missing, x_sde_host |-> Missing,
                  sde_api_key |-> Missing, x_sde_api_key |-> Missing]
\* the credentials a request carries: in its headers alone, or in its body
CredentialInputs ==
    { [headers |-> [NoCredHeaders EXCEPT !.sde_host = h, !.sde_api_key = Str("key")],
       body |-> NoBody] :
        h \in { Str(t) : t \in HostTexts } \cup {Missing} }
    \cup
    { [headers |-> [NoCredHeaders EXCEPT !.sde_host = Str(Hosts.plain), !.sde_api_key = k],
       body |-> NoBody] :
        k \in { Str(""), Missing } }
    \cup
    { [headers |-> [NoCredHeaders EXCEPT !.x_sde_host = Str(Hosts.plain),
                                         !.x_sde_api_key = Str("key")],
       body |-> NoBody],
      [headers |-> NoCredHeaders,
       body |-> [NoBody EXCEPT !.sde_host = Str(Hosts.upper), !.sde_api_key = Str("key")]],
      [headers |-> NoCredHeaders,
       body |-> [NoBody EXCEPT !.params = [sde_host |-> Str(Hosts.plain),
                                           sde_api_key |-> Str("key")]]],
      [headers |-> [NoCredHeaders EXCEPT !.sde_host = Str(Hosts.empty)],
       body |-> [NoBody EXCEPT !.sde_host = Str(Hosts.plain), !.sde_api_key = Str("key")]],
      [headers |-> [NoCredHeaders EXCEPT !.sde_host = Str(Hosts.other)],
       body |-> [NoBody EXCEPT !.sde_host = Str(Hosts.plain), !.sde_api_key = Str("key")]] }
SessionHeaders ==
    { Missing, Str("") } \cup { Str(SessionIds[t]) : t \in 1..MaxSessions }
Requests ==
    { [method |-> m,
       headers |-> [mcp_session_id |-> sid, sde_host |-> c.headers.sde_host,
                    x_sde_host |-> c.headers.x_sde_host,
                    sde_api_key |-> c.headers.sde_api_key,
                    x_sde_api_key |-> c.headers.x_sde_api_key],
       body |-> [c.body EXCEPT !.method = b]] :
        m \in {"POST"}, b \in {"initialize"}, sid \in SessionHeaders,
        c \in CredentialInputs }
    \cup
    { [method |-> m,
       headers |-> [mcp_session_id |-> sid, sde_host |-> h, x_sde_host |-> Missing,
                    sde_api_key |-> Str("key"), x_sde_api_key |-> Missing],
       body |-> [NoBody EXCEPT !.method = b]] :
        m \in {"POST"}, b \in {"tools/call"}, sid \in SessionHeaders,
        h \in { Str(Hosts.plain), Missing } }
    \cup
    { [method |-> m,
       headers |-> [mcp_session_id |-> sid, sde_host |-> Missing, x_sde_host |-> Missing,
                    sde_api_key |-> Missing, x_sde_api_key |-> Missing],
       body |-> NoBody] :
        m \in {"GET", "DELETE"}, sid \in SessionHeaders }

\* a transport with its server: the credentials its server was created with,
\* whether an initialize request made the handler create it (history), and the
\* state of the SDK transport ("connecting" until server.connect has ended)
NewTransport(creds, req) ==
    [host |-> creds.host, apiKey |-> creds.apiKey, init |-> IsInitRequest(req),
     state |-> "connecting", sessionId |-> Missing]

\* the answer to the request the last step handled: the request's kind, session
\* id and credentials, how the handler ended (an HTTP status of its own,
\* "connect" for a created transport, "transport" for a request handed to a
\* session's transport) and the transport concerned; NoAnswer when the last
\* step was not a request
Answer(req, creds, status, t) ==
    [request |-> TRUE, init |-> IsInitRequest(req), sessionId |-> req.headers.mcp_session_id,
     creds |-> creds, status |-> status, transport |-> t]
NoAnswer == [request |-> FALSE, init |-> FALSE, sessionId |-> Missing,
             creds |-> Null, status |-> "", transport |-> 0]

\* transport.handleRequest for a session's transport: DELETE ends the session
\* (onsessionclosed, then the transport closes: onclose); anything else, a second
\* initialize too, leaves the session as it is
HandledBySession(map, ts, t, req) ==
    IF req.method = "DELETE"
    THEN [sessions |-> SessionDelete(map, ts[t].sessionId.value),
          transports |-> [ts EXCEPT ![t].state = "closed"]]
    ELSE [sessions |-> map, transports |-> ts]

\* app.all("/mcp", ...) up to its first await that waits for something: the
\* checks, and either an answer, or server.connect for a new transport, or
\* transport.handleRequest of the session's transport
HttpRequest ==
    /\ \E req \in Requests :
           LET sessionId == req.headers.mcp_session_id
               isInitRequest == IsInitRequest(req)
               entry == EntryOf(sessions, sessionId)
               creds == ReadSdeCredsFromRequest(req, httpEnv.allowInsecure)
           IN IF entry # 0
              THEN LET after == HandledBySession(sessions, transports, entry, req)
                   IN /\ sessions' = after.sessions
                      /\ transports' = after.transports
                      /\ httpLast' = Answer(req, creds, "transport", entry)
              ELSE IF BadRequest(entry, isInitRequest)
              THEN /\ httpLast' = Answer(req, creds, "400", 0)
                   /\ UNCHANGED <<sessions, transports>>
              ELSE IF creds.null
              THEN /\ httpLast' = Answer(req, creds, "400", 0)
                   /\ UNCHANGED <<sessions, transports>>
              ELSE IF ~HostAllowed(Whitelist, creds)
              THEN /\ httpLast' = Answer(req, creds, "403", 0)
                   /\ UNCHANGED <<sessions, transports>>
              ELSE /\ Len(transports) < MaxSessions
                   /\ transports' = Append(transports, NewTransport(creds, req))
                   /\ httpLast' = Answer(req, creds, "connect", Len(transports) + 1)
                   /\ sessions' = sessions
    /\ UNCHANGED httpEnv
    /\ UNCHANGED <<rules, srvSelected, srvCommitted, pc, call, payload, draft,
                   targetIds, deselectIds, errors, selectedCount, deselectedCount,
                   idx, result, thrown, answerId, autoResolve, potentialPrereqs,
                   dependenciesAdded, log, faults>>
    /\ UNCHANGED toolVars

\* await server.connect(transport) has ended and transport.handleRequest runs
\* for the initialize request: it initialized the session (sessionIdGenerator,
\* then onsessioninitialized), or it did not: the connect rejected (500), or
\* the transport refused the request
HttpConnected ==
    /\ \E t \in 1..Len(transports), o \in {"ok", "failed"} :
           /\ transports[t].state = "connecting"
           /\ IF o = "ok"
              THEN /\ transports' = [transports EXCEPT ![t].state = "initialized",
                                                       ![t].sessionId = Str(SessionIds[t])]
                   /\ sessions' = SessionSet(sessions, SessionIds[t], t)
              ELSE /\ transports' = [transports EXCEPT ![t].state = o]
                   /\ sessions' = sessions
    /\ httpLast' = NoAnswer
    /\ UNCHANGED httpEnv
    /\ UNCHANGED <<rules, srvSelected, srvCommitted, pc, call, payload, draft,
                   targetIds, deselectIds, errors, selectedCount, deselectedCount,
                   idx, result, thrown, answerId, autoResolve, potentialPrereqs,
                   dependenciesAdded, log, faults>>
    /\ UNCHANGED toolVars

\* transport.onclose: the transport of a session closes (the client went away,
\* or the server closes on a signal)
TransportClosed ==
    /\ \E t \in 1..Len(transports) :
           /\ transports[t].state = "initialized"
           /\ LET sid == transports[t].sessionId
              IN sessions' = IF IsString(sid) /\ sid.value # ""
                             THEN SessionDelete(sessions, sid.value)
                             ELSE sessions
           /\ transports' = [transports EXCEPT ![t].state = "closed"]
    /\ httpLast' = NoAnswer
    /\ UNCHANGED httpEnv
    /\ UNCHANGED <<rules, srvSelected, srvCommitted, pc, call, payload, draft,
                   targetIds, deselectIds, errors, selectedCount, deselectedCount,
                   idx, result, thrown, answerId, autoResolve, potentialPrereqs,
                   dependenciesAdded, log, faults>>
    /\ UNCHANGED toolVars

(***************************************************************************)
(* Initial states.                                                         *)
(***************************************************************************)
\* no client call is running
CallIdle ==
    /\ pc = "idle"
    /\ call = "none"
    /\ payload = NoPayload
    /\ draft = EmptyDraft
    /\ targetIds = <<>>
    /\ deselectIds = <<>>
    /\ errors = <<>>
    /\ selectedCount = 0
    /\ deselectedCount = 0
    /\ idx = 0
    /\ result = NoResult
    /\ thrown = ""
    /\ answerId = ""
    /\ autoResolve = TRUE
    /\ potentialPrereqs = <<>>
    /\ dependenciesAdded = <<>>
    /\ log = <<>>
    /\ faults = 0

\* no similarity was computed
SimIdle == str1 = <<>> /\ str2 = <<>> /\ scores = NoScores

\* a new SDElementsClient: private libraryAnswersCache = null; no search runs
MatcherIdle ==
    /\ libraryAnswersCache = Null
    /\ searchTexts = <<>>
    /\ fuzzyThreshold = Rat(3, 4)
    /\ searchResults = <<>>
    /\ findPc = "idle"
    /\ loads = 0
    /\ loadedLists = <<>>
    /\ loadFailed = FALSE

NoToolResult == [returned |-> FALSE]
\* no tool handler runs
ToolIdle == tool = "none" /\ toolArgs = Null /\ toolData = Null /\ toolResult = NoToolResult

\* the HTTP server is not running (STDIO mode)
HttpIdle ==
    /\ httpEnv = [allowInsecure |-> FALSE, allowlist |-> <<>>]
    /\ sessions = <<>>
    /\ transports = <<>>
    /\ httpLast = NoAnswer

\* a project whose draft nobody works on
RemoteIdle ==
    /\ rules = CHOOSE r \in RuleSets : r.req["X"] = {"Y"}
    /\ srvSelected = {}
    /\ srvCommitted = 0

Init ==
    /\ SimIdle /\ MatcherIdle /\ ToolIdle /\ HttpIdle
    /\ rules \in RuleSets
    /\ srvSelected \in SUBSET AnswerIds
    /\ srvCommitted = 0
    /\ pc = "idle"
    /\ call = "none"
    /\ payload = NoPayload
    /\ draft = EmptyDraft
    /\ targetIds = <<>>
    /\ deselectIds = <<>>
    /\ errors = <<>>
    /\ selectedCount = 0
    /\ deselectedCount = 0
    /\ idx = 0
    /\ result = NoResult
    /\ thrown = ""
    /\ answerId = ""
    /\ autoResolve = TRUE
    /\ potentialPrereqs = <<>>
    /\ dependenciesAdded = <<>>
    /\ log = <<>>
    /\ faults = 0

Next ==
    \/ StartUpdate
    \/ UpdGetDraft
    \/ UpdDeselect
    \/ UpdRefresh
    \/ UpdSelect
    \/ UpdVerify
    \/ UpdCommit
    \/ StartAdd
    \/ AddGetDraft
    \/ AddPrereq
    \/ AddRecheck
    \/ AddTarget
    \/ AddDirect

Spec == Init /\ [][Next]_vars

\* calculateSimilarity on every pair of strings up to the length bound
InitSim ==
    /\ str1 \in Strings /\ str2 \in Strings
    /\ scores = NoScores
    /\ RemoteIdle /\ CallIdle /\ MatcherIdle /\ ToolIdle /\ HttpIdle
NextSim == Compare
SpecSim == InitSim /\ [][NextSim]_vars

\* the texts of the matcher's catalogs and queries: "ab" in three spellings,
\* two longer texts that hold it, and three texts of five letters none of which
\* contains another: "abbab" and "ababb" have the same bigrams (similarity 1),
\* "abbab" and "abbaa" share three of four (similarity 3/4, the threshold every
\* caller uses)
Texts == { <<"a", "b">>, <<"A", "b">>, <<"a", " ", "b">>, <<"a", "b", "a">>,
           <<"a", "b", "b">>,
           <<"a", "b", "b", "a", "b">>, <<"a", "b", "a", "b", "b">>,
           <<"a", "b", "b", "a", "a">> }
LibraryIds == <<"A1", "A2", "A3", "A4">>
Catalogs ==
    { [i \in 1..Len(ts) |-> Item(LibraryIds[i], ts[i])] : ts \in SeqsUpTo(Texts, MaxCatalog) }

\* findAnswersByText on every catalog and query list of the bounds, with the
\* threshold all its callers use: the default 0.75, which the tool handlers
\* leave as it is
InitMatch ==
    /\ libraryAnswersCache \in { Loaded(c) : c \in Catalogs }
    /\ searchTexts \in SeqsUpTo(Texts, MaxQueries) \ {<<>>}
    /\ fuzzyThreshold = Rat(3, 4)
    /\ searchResults = <<>>
    /\ findPc = "idle"
    /\ loads = 0 /\ loadedLists = <<>> /\ loadFailed = FALSE
    /\ RemoteIdle /\ CallIdle /\ SimIdle /\ ToolIdle /\ HttpIdle
NextMatch == FindCached
SpecMatch == InitMatch /\ [][NextMatch]_vars

\* a new client, its cache not loaded, and one findAnswersByText call next to
\* loadLibraryAnswers calls
InitCache ==
    /\ libraryAnswersCache = Null
    /\ searchTexts \in SeqsUpTo(Texts, MaxQueries) \ {<<>>}
    /\ fuzzyThreshold = Rat(3, 4)
    /\ searchResults = <<>>
    /\ findPc = "idle"
    /\ loads = 0 /\ loadedLists = <<>> /\ loadFailed = FALSE
    /\ RemoteIdle /\ CallIdle /\ SimIdle /\ ToolIdle /\ HttpIdle
NextCache ==
    \/ StartLoad
    \/ LoadDone
    \/ FindCached
    \/ FindUncached
    \/ FindLoaded
    \/ FindResume
SpecCache == InitCache /\ [][NextCache]_vars

\* the server when registerAll has returned: a new client, its cache null, the
\* request of the cache warm-up in flight, the handlers registered and none
\* called; then one call of a tool on a project
InitTools ==
    /\ rules \in RuleSets
    /\ srvSelected \in SUBSET AnswerIds
    /\ srvCommitted = 0
    /\ libraryAnswersCache = Null
    /\ searchTexts = <<>>
    /\ fuzzyThreshold = Rat(3, 4)
    /\ searchResults = <<>>
    /\ findPc = "none"
    /\ loads = 1 /\ loadedLists = <<>> /\ loadFailed = FALSE
    /\ CallIdle /\ SimIdle /\ ToolIdle /\ HttpIdle
NextTools ==
    \/ LoadDone
    \/ StartSet
    \/ FindCached
    \/ FindUncached
    \/ FindLoaded
    \/ FindResume
    \/ SetFind
    \/ SetSurvey
    \/ StartRemove
    \/ RemoveSurvey
    \/ RemoveFind
    \/ CommitSurveyDraft
    \/ ApiRequest
    \/ RequestDone
    \/ UpdGetDraft
    \/ UpdDeselect
    \/ UpdRefresh
    \/ UpdSelect
    \/ UpdVerify
    \/ UpdCommit
    \/ ToolReturn
SpecTools == InitTools /\ [][NextTools]_vars

\* one call of add_survey_answers_by_text on a project
NextAddByText ==
    \/ LoadDone
    \/ StartAddByText
    \/ AddByTextLoaded
    \/ FindCached
    \/ AddByTextFind
    \/ AddGetDraft
    \/ AddPrereq
    \/ AddRecheck
    \/ AddTarget
    \/ AddDirect
    \/ AddByTextNext
SpecAddByText == InitTools /\ [][NextAddByText]_vars

\* the HTTP server after main() has started it: the environment is one main()
\* accepts, and no session exists
InitHttp ==
    /\ httpEnv \in { e \in [allowInsecure : BOOLEAN,
                             allowlist : { <<Hosts.plain>>, <<Hosts.http>>,
                                           <<Hosts.upper, Hosts.blank, Hosts.other>> }] :
                       ~ReadWhitelist(e.allowlist, e.allowInsecure).throws }
    /\ sessions = <<>>
    /\ transports = <<>>
    /\ httpLast = NoAnswer
    /\ RemoteIdle /\ CallIdle /\ SimIdle /\ MatcherIdle /\ ToolIdle
NextHttp ==
    \/ HttpRequest
    \/ HttpConnected
    \/ TransportClosed
SpecHttp == InitHttp /\ [][NextHttp]_vars

\* addAnswerToSurveyDraft alone, on the drafts of the rule sets and of one more:
\* (4) X requires Y, and Z is a further valid answer of the same question
FirstUnblocks == [question |-> AllQ1, req |-> [NoReq EXCEPT !["X"] = {"Y"}], excl |-> NoReq]
ResolverRules == RuleSets \cup {FirstUnblocks}
InitResolve ==
    /\ rules \in ResolverRules
    /\ srvSelected \in SUBSET AnswerIds
    /\ srvCommitted = 0
    /\ CallIdle /\ SimIdle /\ MatcherIdle /\ ToolIdle /\ HttpIdle
NextResolve ==
    \/ StartAdd
    \/ AddGetDraft
    \/ AddPrereq
    \/ AddRecheck
    \/ AddTarget
    \/ AddDirect
SpecResolve == InitResolve /\ [][NextResolve]_vars

(***************************************************************************)
(* Properties.  The log is read as the sequence of remote calls the        *)
(* running client call has issued.                                         *)
(***************************************************************************)
Positions(op) == { i \in 1..Len(log) : log[i].op = op }
PositionsAt(op, at) == { i \in 1..Len(log) : log[i].op = op /\ log[i].at = at }
LastCall == log[Len(log)]
\* position of the first occurrence of x in the sequence s
FirstPos(s, x) == CHOOSE k \in 1..Len(s) : s[k] = x /\ \A m \in 1..(k - 1) : s[m] # x
\* the entries of the error list of the given kind, in order
ErrorsOfKind(errs, kind) == SelectSeq(errs, LAMBDA e : e.kind = kind)
\* the ids of the log's calls op that ended with outcome, in order
RECURSIVE IdsOfCalls(_, _, _)
IdsOfCalls(l, op, outcomes) ==
    IF l = <<>> THEN <<>>
    ELSE LET front == IdsOfCalls(SubSeq(l, 1, Len(l) - 1), op, outcomes)
             e == l[Len(l)]
         IN IF e.op = op /\ e.outcome \in outcomes THEN Append(front, e.id) ELSE front
IdsOf(errs) == [i \in 1..Len(errs) |-> errs[i].id]

\* C1: in updateProjectSurvey every deselect mutation is issued before any
\* select mutation, and the select mutations follow the caller-supplied order
\* of payload.answers (order of first occurrence), not a re-sorted order.
C1_DeselectThenSelectInCallerOrder ==
    call = "update" =>
        /\ \A i \in Positions("select"), j \in Positions("deselect") : j < i
        /\ \A i \in Positions("select") : log[i].id \in Range(payload.answers)
        /\ \A i, j \in Positions("select") :
            i < j => FirstPos(payload.answers, log[i].id) < FirstPos(payload.answers, log[j].id)

\* C1 witness: a finished call that deselected X, then selected Z, then Y, for
\* answers given as Z, Y.
C1_Witness ==
    /\ call = "update" /\ pc = "done"
    /\ payload.answers = <<"Z", "Y">>
    /\ \E i \in Positions("deselect"), j, k \in Positions("select") :
        /\ i < j /\ j < k
        /\ log[j].id = "Z" /\ log[k].id = "Y"

\* the case of C2: the only target is X, and on the remote X is neither selected
\* nor valid, and no valid unselected answer of its question would make it valid
NoSiblingUnblocks(a, sel) ==
    \A b \in AnswerIds \ (sel \cup {a}) :
        (rules.question[b] = rules.question[a] /\ SrvValid(b, sel)) => ~SrvValid(a, sel \cup {b})
C2_Case ==
    /\ call = "update" /\ pc = "done"
    /\ payload.answers = <<"X">>
    /\ "X" \notin srvSelected
    /\ ~SrvValid("X", srvSelected)
    /\ NoSiblingUnblocks("X", srvSelected)
    /\ ErrorsOfKind(errors, "DraftRefreshFailed") = <<>>

\* C2 as stated: for selectIds = [X], X not valid and without a sibling that
\* unblocks it, the result has selectedCount 0, exactly one dependencies-unresolved
\* entry for X, and missingIds = [X].
C2_AsStated ==
    C2_Case =>
        /\ result.selectedCount = 0
        /\ ItemsOf(result.errors) = <<ErrorEntry("DependenciesUnresolved", "X")>>
        /\ ItemsOf(result.missingAnswers) = <<"X">>

\* the case of C2 reached with the select of X rejected by the remote: the
\* result has a failed-to-select entry for X
C2_Rejected ==
    /\ C2_Case
    /\ \E i \in Positions("select") : log[i].id = "X" /\ log[i].outcome = "fail"

\* C3 as stated: a failed draft fetch at any of the three fetch points makes the
\* whole call fail, with no later mutation and no commit.
C3_AsStated ==
    call = "update" =>
        \A i \in Positions("fetch") :
            log[i].outcome = "fail" => (i = Len(log) /\ pc = "thrown")

\* C3 amended: only a failed verification fetch makes the call fail: it rejects
\* without a result, issues no commit and no further call, and leaves applied
\* mutations in place.  A failed initial fetch is replaced by an empty draft: the
\* call goes on and issues no deselect call.  A failed per-id refresh is recorded
\* as an error and only that id is skipped (no select call for it).
C3_OnlyVerifyFetchIsFatal ==
    call = "update" =>
        /\ \A i \in PositionsAt("fetch", "uVerify") :
            log[i].outcome = "fail" =>
                /\ i = Len(log) /\ pc = "thrown" /\ thrown = "FetchFailed"
                /\ ~result.returned /\ srvCommitted = 0
                /\ \A j \in Positions("select") : log[j].outcome = "ok" => log[j].id \in srvSelected
        /\ pc = "thrown" => LastCall.at = "uVerify"
        /\ (Len(log) >= 1 /\ log[1].outcome = "fail") => Positions("deselect") = {}
        /\ Len(ErrorsOfKind(errors, "DraftRefreshFailed"))
             = Cardinality({ i \in PositionsAt("fetch", "uRefresh") : log[i].outcome = "fail" })
        /\ \A i \in PositionsAt("fetch", "uRefresh") :
            (log[i].outcome = "fail" /\ i < Len(log)) => log[i + 1].op = "fetch"

\* C3 witness: the initial fetch failed, no deselect was sent for the listed
\* (and selected) answer, and the call still selected a target and returned.
C3_Witness ==
    /\ call = "update" /\ pc = "done"
    /\ log[1].outcome = "fail"
    /\ deselectIds # <<>> /\ deselectIds[1] \in srvSelected
    /\ \E j \in Positions("select") : log[j].outcome = "ok" /\ log[j].id \in srvSelected

\* further reachable cases of C3: a refresh failed and a later target was still
\* selected; the verification fetch failed after a select that stays applied.
C3_WitnessRefresh ==
    /\ call = "update" /\ pc = "done"
    /\ \E i \in PositionsAt("fetch", "uRefresh"), j \in Positions("select") :
        log[i].outcome = "fail" /\ i < j /\ log[j].outcome = "ok"
C3_WitnessFatal ==
    /\ call = "update" /\ pc = "thrown"
    /\ \E j \in Positions("select") : log[j].outcome = "ok" /\ log[j].id \in srvSelected

\* the draft the call holds shows id as valid and not selected
ValidUnselectedIn(d, id) == InDraft(d, id) /\ Find(d, id).valid /\ ~Find(d, id).selected
SelectSent == Len(log') = Len(log) + 1 /\ log'[Len(log')].op = "select"

\* C4: every select mutation the engine issues (updateProjectSurvey for a
\* target, addAnswerToSurveyDraft for a target or a sibling) is for an answer
\* that is valid and not selected in the most recently fetched draft at the
\* moment the mutation is sent.
C4_SelectOnlyValidInLatestDraft ==
    [][SelectSent => ValidUnselectedIn(draft, log'[Len(log')].id)]_vars

\* C5: in the select phase of updateProjectSurvey each select call directly
\* follows the successful refresh that decided it, and the draft an id's
\* decision reads is the remote's current draft, never one fetched before an
\* earlier mutation.
C5_FreshDraftBeforeEachSelect ==
    call = "update" =>
        /\ \A i \in Positions("select") :
            /\ i > 1
            /\ log[i - 1].op = "fetch" /\ log[i - 1].outcome = "ok" /\ log[i - 1].at = "uRefresh"
        /\ pc = "uSelect" => draft = ServerDraft(srvSelected)

\* C5 witness: X, which needs Y, is about to be decided on a draft that already
\* shows the Y this call selected and X valid.
C5_Witness ==
    /\ call = "update" /\ pc = "uSelect" /\ idx = 2
    /\ targetIds = <<"Y", "X">>
    /\ \E i \in Positions("select") : log[i].id = "Y" /\ log[i].outcome = "ok"
    /\ Find(draft, "Y").selected /\ Find(draft, "X").valid /\ ~Find(draft, "X").selected

\* C6: missingAnswers of the returned result is exactly the target ids, in
\* target order, that are not selected on the remote at the verification fetch
\* (null standing for none); a target whose select call was accepted without
\* effect is reported as missing.
C6_MissingFromFinalFetch ==
    (call = "update" /\ result.returned) =>
        /\ ItemsOf(result.missingAnswers)
             = SelectSeq(targetIds, LAMBDA id : id \notin srvSelected)
        /\ result.missingAnswers.null = (Range(targetIds) \subseteq srvSelected)
        /\ \A i \in Positions("select") :
            (log[i].outcome = "noop" /\ log[i].id \notin srvSelected)
                => log[i].id \in Range(ItemsOf(result.missingAnswers))

\* C6 witness: a returned result whose select of Y was accepted without effect,
\* counted in selectedCount, and Y is reported missing.
C6_Witness ==
    /\ call = "update" /\ pc = "done"
    /\ \E i \in Positions("select") : log[i].id = "Y" /\ log[i].outcome = "noop"
    /\ result.selectedCount >= 1
    /\ "Y" \in Range(ItemsOf(result.missingAnswers))

MutationFailedAt(at) == Len(log') = Len(log) + 1 /\ log'[Len(log')].outcome = "fail" /\ pc = at

\* C7: a failed select or deselect call of updateProjectSurvey is recorded in the
\* error list (one entry per failed call, same ids, same order), the loop goes on
\* with the next id (every target gets its refresh), and the call rejects only
\* because of the verification fetch, never because of a mutation.
C7_PerItemFailuresDoNotAbort ==
    /\ [](call = "update" =>
            /\ IdsOf(ErrorsOfKind(errors, "FailedToSelect")) = IdsOfCalls(log, "select", {"fail"})
            /\ IdsOf(ErrorsOfKind(errors, "FailedToDeselect")) = IdsOfCalls(log, "deselect", {"fail"})
            /\ pc = "thrown" => (LastCall.op = "fetch" /\ LastCall.at = "uVerify")
            /\ pc \in {"uVerify", "uCommit", "done", "thrown"} =>
                 Cardinality(PositionsAt("fetch", "uRefresh")) = Len(targetIds))
    /\ [][MutationFailedAt("uDeselect") =>
            /\ pc' # "thrown"
            /\ IF idx < Len(deselectIds) THEN pc' = "uDeselect" /\ idx' = idx + 1
               ELSE pc' \in {"uRefresh", "uVerify"}]_vars
    /\ [][MutationFailedAt("uSelect") =>
            /\ pc' # "thrown"
            /\ IF idx < Len(targetIds) THEN pc' = "uRefresh" /\ idx' = idx + 1
               ELSE pc' = "uVerify"]_vars

\* C7 witness: the deselect of the first of two ids failed, the second id was
\* still deselected, the select loop still ran, and the call returned with the
\* error recorded.
C7_Witness ==
    /\ call = "update" /\ pc = "done"
    /\ Len(deselectIds) = 2
    /\ \E i, j \in Positions("deselect"), k \in Positions("select") :
        /\ i < j /\ j < k
        /\ log[i].id = deselectIds[1] /\ log[i].outcome = "fail"
        /\ log[j].id = deselectIds[2] /\ log[j].outcome = "ok"
        /\ log[k].outcome = "ok"
    /\ ItemsOf(result.errors) = <<ErrorEntry("FailedToDeselect", deselectIds[1])>>
    /\ result.deselectedCount = 1

\* the same in the select loop: the select of the first target failed, the
\* second target was still refreshed and selected, and the call returned with
\* the error recorded.
C7_WitnessSelect ==
    /\ call = "update" /\ pc = "done"
    /\ Len(targetIds) = 2
    /\ \E j, k \in Positions("select") :
        /\ j < k
        /\ log[j].id = targetIds[1] /\ log[j].outcome = "fail"
        /\ log[k].id = targetIds[2] /\ log[k].outcome = "ok"
    /\ ItemsOf(result.errors) = <<ErrorEntry("FailedToSelect", targetIds[1])>>

SelectedIn(d, id) == InDraft(d, id) /\ Find(d, id).selected

\* C8: for a target the freshly fetched draft shows as selected,
\* updateProjectSurvey issues no call and leaves selectedCount as it is, and
\* addAnswerToSurveyDraft returns success having issued nothing but its fetch.
C8_AlreadySelectedIsNoOp ==
    /\ [][(call = "update" /\ pc = "uSelect" /\ SelectedIn(draft, targetIds[idx])) =>
            (log' = log /\ selectedCount' = selectedCount /\ srvSelected' = srvSelected)]_vars
    /\ []((call = "add" /\ pc # "aGetDraft" /\ SelectedIn(draft, answerId)) =>
            (/\ pc = "done" /\ Len(log) = 1
             /\ result.returned /\ result.success
             /\ result.dependenciesAdded.undefined))

\* C8 witness: updateProjectSurvey returned for targets Y, Z with Y selected
\* beforehand: only Z was sent and counted.
C8_Witness ==
    /\ call = "update" /\ pc = "done"
    /\ targetIds = <<"Y", "Z">>
    /\ IdsOfCalls(log, "select", {"ok", "noop", "fail"}) = <<"Z">>
    /\ Cardinality(PositionsAt("fetch", "uRefresh")) = 2
    /\ ErrorsOfKind(errors, "DraftRefreshFailed") = <<>>
    /\ result.selectedCount = 1
    /\ {"Y", "Z"} \subseteq srvSelected

\* a second reachable case of C8: addAnswerToSurveyDraft for a selected answer.
C8_WitnessAdd ==
    /\ call = "add" /\ pc = "done"
    /\ SelectedIn(draft, answerId)
    /\ Len(log) = 1

\* C9: for an id of answers_to_deselect that the draft does not show as selected
\* (or does not hold), updateProjectSurvey issues no call; deselectedCount is the
\* number of deselect calls that succeeded.
C9_DeselectOnlySelected ==
    /\ [][(call = "update" /\ pc = "uDeselect" /\ ~SelectedIn(draft, deselectIds[idx])) =>
            (log' = log /\ deselectedCount' = deselectedCount /\ srvSelected' = srvSelected)]_vars
    /\ [](call = "update" =>
            deselectedCount = Len(IdsOfCalls(log, "deselect", {"ok", "noop"})))

\* C9 witness: deselect list Z with Z in the fetched draft but not selected:
\* the call returned with no deselect call and deselectedCount 0.
C9_Witness ==
    /\ call = "update" /\ pc = "done"
    /\ deselectIds = <<"Z">>
    /\ log[1].outcome = "ok"
    /\ "Z" \notin srvSelected /\ Positions("select") = {}
    /\ Positions("deselect") = {}
    /\ result.deselectedCount = 0
    /\ ~result.deselectedAnswers.null

\* C10: with survey_complete set, once the verification fetch succeeded the
\* publish call is issued exactly once, as the last call, whatever the errors and
\* missing answers; a failed publish yields commitError and draftCommitted false
\* in a result that is still returned, and the publish step changes no selection.
C10_CommitAttemptedOnce ==
    /\ []((call = "update" /\ payload.survey_complete /\ result.returned) =>
            /\ pc \in {"uCommit", "done"}
            /\ pc = "uCommit" => Positions("commit") = {}
            /\ pc = "done" =>
                /\ Positions("commit") = {Len(log)}
                /\ log[Len(log) - 1].op = "fetch" /\ log[Len(log) - 1].at = "uVerify"
                /\ result.draftCommitted = (LastCall.outcome = "ok")
                /\ result.commitError = (LastCall.outcome = "fail")
                /\ srvCommitted = IF LastCall.outcome = "ok" THEN 1 ELSE 0)
    /\ [][pc = "uCommit" => srvSelected' = srvSelected]_vars

\* C10 witness: a result with a missing answer whose publish was attempted and
\* failed, while a selection made by the call stays applied.
C10_Witness ==
    /\ call = "update" /\ pc = "done" /\ payload.survey_complete
    /\ ~result.missingAnswers.null
    /\ result.commitError /\ ~result.draftCommitted
    /\ LastCall.op = "commit"
    /\ \E i \in Positions("select") : log[i].outcome = "ok" /\ log[i].id \in srvSelected

\* a second reachable case of C10: a select failed (an error and a missing
\* answer) and the draft was published all the same.
C10_WitnessErrors ==
    /\ call = "update" /\ pc = "done" /\ payload.survey_complete
    /\ ~result.errors.null /\ ~result.missingAnswers.null
    /\ result.draftCommitted /\ srvCommitted = 1

\* the operations and ids of the log, in order
OpsOf(l) == [i \in 1..Len(l) |-> <<l[i].op, l[i].id>>]
AllOk(l) == \A i \in 1..Len(l) : l[i].outcome = "ok"

\* C11: addAnswerToSurveyDraft for a target X that the fetched draft shows as
\* invalid and unselected, with Y the valid unselected answer of its question:
\* the calls are, in this order, fetch, select Y, fetch, select X; the select of
\* X is sent only when the re-fetched draft shows X valid; the call returns
\* success with dependenciesAdded = [Y].
C11_SiblingRecheckTarget ==
    /\ []((call = "add" /\ pc = "done" /\ answerId = "X" /\ potentialPrereqs = <<"Y">>
            /\ AllOk(log)) =>
            /\ OpsOf(log) = << <<"fetch", "">>, <<"select", "Y">>, <<"fetch", "">>,
                               <<"select", "X">> >>
            /\ result.returned /\ result.success
            /\ result.dependenciesAdded = Defined(<<"Y">>)
            /\ {"X", "Y"} \subseteq srvSelected)
    /\ []((call = "add" /\ pc = "done" /\ ~result.dependenciesAdded.undefined) =>
            LET n == Len(log)
            IN /\ n >= 4
               /\ log[n].op = "select" /\ log[n].id = answerId /\ log[n].at = "aTarget"
               /\ log[n - 1].op = "fetch" /\ log[n - 1].outcome = "ok"
               /\ log[n - 2].op = "select" /\ log[n - 2].at = "aPrereq"
               /\ log[n - 2].outcome # "fail"
               /\ result.dependenciesAdded.value
                    = IdsOfCalls(SubSeq(log, 1, n - 1), "select", {"ok", "noop"}))
    /\ [][(call = "add" /\ pc \in {"aPrereq", "aRecheck", "aTarget"} /\ SelectSent
             /\ log'[Len(log')].id = answerId) =>
            (/\ pc = "aTarget"
             /\ draft = ServerDraft(srvSelected)
             /\ InDraft(draft, answerId) /\ Find(draft, answerId).valid
             /\ log[Len(log)].op = "fetch" /\ log[Len(log)].outcome = "ok")]_vars

\* C11 witness: the call for X returned after fetch, select Y, fetch, select X,
\* all accepted, with dependenciesAdded = [Y].
C11_Witness ==
    /\ call = "add" /\ pc = "done" /\ answerId = "X"
    /\ potentialPrereqs = <<"Y">>
    /\ AllOk(log) /\ Len(log) = 4
    /\ result.dependenciesAdded = Defined(<<"Y">>)
    /\ "X" \in srvSelected

\* C15: calculateSimilarity is symmetric, also for strings with repeated
\* bigrams: the value for (str1, str2) equals the value for (str2, str1).
C15_SimilaritySymmetric == scores.computed => scores.forth = scores.back

\* C15 witness: two different strings, one of them with a repeated bigram, that
\* share a bigram and were compared both ways.
C15_Witness ==
    /\ scores.computed
    /\ str1 = <<"a", "a", "a">> /\ str2 = <<"a", "a", "b">>
    /\ scores.forth = Rat(1, 2)

\* the catalog a finished findAnswersByText call searched, and what it holds
\* for a query q
Catalog == CacheOrEmpty(libraryAnswersCache)
HasExact(q) == \E i \in 1..Len(Catalog) : ToLowerCase(Catalog[i].text) = ToLowerCase(q)
HasSubstring(q) ==
    \E i \in 1..Len(Catalog) : Includes(ToLowerCase(Catalog[i].text), ToLowerCase(q))
MatchOf(q) == Get(searchResults, q)
MatchTypeOf(q) == IF MatchOf(q).null THEN "none" ELSE MatchOf(q).matchType
Queries == Range(searchTexts)

\* no two queries differ in letter case only
NoCaseDuplicates ==
    \A i, j \in 1..Len(searchTexts) :
        ToLowerCase(searchTexts[i]) = ToLowerCase(searchTexts[j]) => searchTexts[i] = searchTexts[j]

\* C12: for every query, if some catalog text equals it up to case the result
\* is an exact match, whatever the catalog order; a substring match is returned
\* only when the catalog holds no exact match, and a fuzzy match only when it
\* holds neither an exact nor a substring match (stated for query lists in
\* which no two queries differ in letter case only).
C12_ExactOverSubstringOverFuzzy ==
    (findPc = "done" /\ NoCaseDuplicates) =>
        \A q \in Queries :
            /\ HasExact(q) => MatchTypeOf(q) = "exact"
            /\ MatchTypeOf(q) = "substring" => ~HasExact(q)
            /\ MatchTypeOf(q) = "fuzzy" => (~HasExact(q) /\ ~HasSubstring(q))

Normalised(t) == StripWhitespace(ToLowerCase(t))
EqualNormalised(q) == \E i \in 1..Len(Catalog) : Normalised(Catalog[i].text) = Normalised(q)

\* C13: a query that equals a catalog text up to letter case and whitespace is
\* reported with matchType exact and similarity 1.0 (stated for the queries no
\* catalog text contains without being equal, and without case duplicates).
C13_ExactUpToCaseAndWhitespace ==
    (findPc = "done" /\ NoCaseDuplicates) =>
        \A q \in Queries :
            (EqualNormalised(q) /\ (HasSubstring(q) => HasExact(q))) =>
                /\ MatchTypeOf(q) = "exact"
                /\ MatchOf(q).similarity = Rat(1, 1)

\* the similarity of catalog entry i to the query q
ScoreOf(q, i) == CalculateSimilarity(ToLowerCase(q), ToLowerCase(Catalog[i].text))
Reaching(q) == { i \in 1..Len(Catalog) : AtLeast(ScoreOf(q, i), fuzzyThreshold) }
\* the first entry, in catalog order, among those of highest similarity in S
FirstBest(q, S) ==
    CHOOSE i \in S :
        /\ \A j \in S : AtLeast(ScoreOf(q, i), ScoreOf(q, j))
        /\ \A j \in S : (j < i) => Less(ScoreOf(q, j), ScoreOf(q, i))

\* C14: a query with no exact and no substring match gets the catalog entry
\* of highest similarity among the entries at or above the threshold, the first
\* of them in catalog order when scores tie, and null when no entry reaches the
\* threshold.
C14_BestFuzzyAtOrAboveThreshold ==
    findPc = "done" =>
        \A q \in Queries :
            (~HasExact(q) /\ ~HasSubstring(q)) =>
                IF Reaching(q) = {} THEN MatchOf(q).null
                ELSE /\ MatchTypeOf(q) = "fuzzy"
                     /\ MatchOf(q).id = Catalog[FirstBest(q, Reaching(q))].id
                     /\ MatchOf(q).similarity = ScoreOf(q, FirstBest(q, Reaching(q)))

\* C14 witness: two catalog entries tie at the highest similarity for a query
\* without exact or substring match, and the first of them was returned.
C14_Witness ==
    /\ findPc = "done"
    /\ \E q \in Queries :
        /\ ~HasExact(q) /\ ~HasSubstring(q)
        /\ \E i, j \in Reaching(q) :
            /\ i < j
            /\ ScoreOf(q, i) = ScoreOf(q, j)
            /\ Less(Rat(0, 1), ScoreOf(q, i))
            /\ MatchTypeOf(q) = "fuzzy"
            /\ MatchOf(q).id = Catalog[i].id

\* a second reachable case of C14: one entry exactly at the threshold and a
\* later one above it; the later one, of higher similarity, was returned.
C14_WitnessHighest ==
    /\ findPc = "done"
    /\ \E q \in Queries :
        /\ ~HasExact(q) /\ ~HasSubstring(q)
        /\ \E i, j \in Reaching(q) :
            /\ i < j
            /\ ScoreOf(q, i) = fuzzyThreshold
            /\ Less(ScoreOf(q, i), ScoreOf(q, j))
            /\ MatchOf(q).id = Catalog[j].id

\* a third: the only entry is exactly at the threshold and was returned.
C14_WitnessAtThreshold ==
    /\ findPc = "done"
    /\ Len(Catalog) = 1
    /\ \E q \in Queries :
        /\ ~HasExact(q) /\ ~HasSubstring(q)
        /\ ScoreOf(q, 1) = fuzzyThreshold
        /\ MatchTypeOf(q) = "fuzzy"
        /\ MatchOf(q).id = Catalog[1].id

\* C16: when the library answers cannot be loaded, findAnswersByText fails with
\* an error: it never returns match results computed from an empty catalog.
C16_CatalogFailureIsFatal == loadFailed => findPc # "done"

FindReturns == findPc # "done" /\ findPc' = "done"

\* C17: a findAnswersByText call next to concurrent loadLibraryAnswers calls
\* computes its whole result, both passes, on one list that a load produced as
\* a whole - the list of the load that finished last before the call read the
\* cache - never on a mixture of two lists or on a partly filled list.
C17_OneCatalogSnapshot ==
    /\ [](findPc = "done" =>
            \E k \in 1..Len(loadedLists) :
                searchResults
                    = FindAnswersByText(Loaded(loadedLists[k]), searchTexts, fuzzyThreshold))
    /\ [][FindReturns =>
            /\ loadedLists # <<>>
            /\ searchResults'
                 = FindAnswersByText(Loaded(loadedLists[Len(loadedLists)]), searchTexts,
                                     fuzzyThreshold)]_vars

\* C17 witness: the call had to load, another load replaced the list before
\* the call went on, and the result is the one of the newer list, which differs
\* from the result on the older list.
C17_Witness ==
    /\ findPc = "done"
    /\ Len(loadedLists) = 2
    /\ loadedLists[1] # <<>> /\ loadedLists[2] # <<>>
    /\ loads = 0 /\ ~loadFailed
    /\ \E q \in Queries : ~MatchOf(q).null
    /\ searchResults = FindAnswersByText(Loaded(loadedLists[2]), searchTexts, fuzzyThreshold)
    /\ searchResults # FindAnswersByText(Loaded(loadedLists[1]), searchTexts, fuzzyThreshold)

\* the ids the given texts resolve to, in the order the handler collects them
ResolvedIds == MatchedIds(searchResults)

\* C18: after remove_survey_answers_by_text has returned with every remote call
\* succeeding, every answer matched from the given texts is not selected in the
\* project's draft, and every other answer that was selected still is.
C18_RemovedStayDeselected ==
    (tool = "remove" /\ toolResult.returned /\ AllOk(log)) =>
        /\ \A id \in Range(ResolvedIds) : id \notin srvSelected
        /\ \A id \in Range(toolData.answers) \ Range(ResolvedIds) : id \in srvSelected

\* the calls of the log on the project: all but the reads of the library
ProjectCalls == SelectSeq(log, LAMBDA e : e.op # "library")
\* the texts of the running handler that findAnswersByText resolved to no answer
Unmatched == NotFound(searchResults)
\* findAnswersByText has returned to the handler what the texts resolve to on a
\* list the library delivered
Resolved ==
    /\ findPc = "done"
    /\ \E k \in 1..Len(loadedLists) :
         searchResults
            = FindAnswersByText(Loaded(loadedLists[k]), toolArgs.texts, fuzzyThreshold)

\* C19: when a text given to set_project_survey_by_text resolves to no answer,
\* the handler returns an error that names the unmatched texts and carries the
\* search results, and no call on the project was issued: no survey read, no
\* draft fetch, no mutation, updateProjectSurvey not called.  (The only remote
\* calls are reads of the library: the warm-up, and the load of the search
\* when the cache was still null.)
C19_UnmatchedTextRejectsBeforeAnyCall ==
    /\ (tool = "set" /\ pc = "tFind") => ProjectCalls = <<>>
    /\ (tool = "set" /\ pc # "tFind") => Resolved
    /\ (tool = "set" /\ pc # "tFind" /\ Unmatched # <<>>) =>
        /\ pc = "tDone"
        /\ toolResult.returned /\ ~toolResult.success
        /\ toolResult.error = Defined(Unmatched)
        /\ toolResult.search_results = searchResults
        /\ ProjectCalls = <<>> /\ call = "none" /\ toolData = Null
        /\ srvCommitted = 0 /\ draft = EmptyDraft

\* C19 witness: of two texts one resolved and one did not, replace_all was set
\* and the project has selected answers: the handler returned the error.
C19_Witness ==
    /\ tool = "set" /\ pc = "tDone"
    /\ toolArgs.replace_all /\ srvSelected # {}
    /\ Len(toolArgs.texts) = 2
    /\ ResolvedIds # <<>>
    /\ toolResult.error = Defined(<< <<"b", "a">> >>)

\* a second reachable case of C19: the handler was called before the warm-up
\* ended, its search loaded the library itself, and the error was returned
\* after that one read.
C19_WitnessColdCache ==
    /\ tool = "set" /\ pc = "tDone"
    /\ loads = 1 /\ loadedLists = <<ToolCatalog>>
    /\ OpsOf(log) = << <<"library", "">> >>
    /\ ResolvedIds # <<>>
    /\ toolResult.error = Defined(<< <<"b", "a">> >>)

\* C20: with replace_all, set_project_survey_by_text hands updateProjectSurvey
\* the resolved ids as answers and, as answers_to_deselect, the project's
\* current answers that are not among them (no list at all when there is none),
\* after one survey read; without replace_all it hands over no deselect list
\* and never reads the survey.
C20_DeselectListOfReplaceAll ==
    /\ (tool = "set" /\ call = "update" /\ pc = "uGetDraft") =>
            LET current == SurveyAnswers(srvSelected)
                expected == SelectSeq(current, LAMBDA id : id \notin Range(ResolvedIds))
            IN /\ toolData.answers = ResolvedIds
               /\ payload = PayloadOf(toolData)
               /\ IF toolArgs.replace_all
                  THEN /\ toolData.answers_to_deselect
                            = IF expected = <<>> THEN Undefined ELSE Defined(expected)
                       /\ Range(payload.answers_to_deselect) \cap Range(payload.answers) = {}
                       /\ OpsOf(ProjectCalls) = << <<"survey", "">> >>
                  ELSE /\ toolData.answers_to_deselect = Undefined
                       /\ ProjectCalls = <<>>
    /\ (tool = "set" /\ ~toolArgs.replace_all) => Positions("survey") = {}
    /\ (tool = "set" /\ call = "update") => payload = PayloadOf(toolData)

\* C20 witness: replace_all with a current answer that is set again and one
\* that is not: only the latter is in the deselect list.
C20_Witness ==
    /\ tool = "set" /\ call = "update" /\ pc = "uGetDraft"
    /\ toolArgs.replace_all
    /\ srvSelected = {"X", "Y"}
    /\ toolData.answers = <<"X">>
    /\ toolData.answers_to_deselect = Defined(<<"Y">>)

\* a second reachable case of C20: nothing to deselect, the list is left out.
C20_WitnessOmitted ==
    /\ tool = "set" /\ call = "update" /\ pc = "uGetDraft"
    /\ toolArgs.replace_all /\ srvSelected = {"X"}
    /\ toolData.answers = <<"X">>
    /\ toolData.answers_to_deselect = Undefined

\* the ids of the log's select calls issued at the program point at, in order
SelectsAt(at) ==
    IdsOfCalls(SelectSeq(log, LAMBDA e : e.at = at), "select", {"ok", "noop", "fail"})
IsPrefix(s, t) == Len(s) <= Len(t) /\ s = SubSeq(t, 1, Len(s))

\* C22: when the target is not valid, addAnswerToSurveyDraft selects only
\* answers that are valid, unselected and of the target's question in the draft
\* it gathered them from, one at a time in draft order; once a re-fetched draft
\* has shown the target valid (the target's select was sent) no further sibling
\* is selected; and when it fails with the dependencies-unresolved error the
\* target is not selected.
C22_GreedyFirstUnblockingSibling ==
    call = "add" =>
        /\ (pc = "aPrereq" /\ Len(log) = 1) =>
            /\ potentialPrereqs = PotentialPrereqs(draft, Find(draft, answerId).question)
            /\ \A id \in Range(potentialPrereqs) : ValidUnselectedIn(draft, id)
        /\ IsPrefix(SelectsAt("aPrereq"), potentialPrereqs)
        /\ \A i \in PositionsAt("select", "aTarget"), j \in PositionsAt("select", "aPrereq") :
            j < i
        /\ thrown = "DependenciesUnresolved" => answerId \notin srvSelected

\* the result holds key as one of its own keys
HasKey(r, key) == \E i \in 1..Len(r) : r[i].key = key
\* two results name the same answer with the same matchType and similarity
SameMatch(m1, m2) ==
    IF m1.null \/ m2.null THEN m1.null /\ m2.null
    ELSE m1.id = m2.id /\ m1.matchType = m2.matchType /\ m1.similarity = m2.similarity

\* C23: two queries of one findAnswersByText call that differ in letter case
\* only are each a key of the result, and both resolve to the same catalog
\* answer with the same matchType and similarity.
C23_CaseDuplicatesResolveAlike ==
    findPc = "done" =>
        \A q1, q2 \in Queries :
            ToLowerCase(q1) = ToLowerCase(q2) =>
                /\ HasKey(searchResults, q1) /\ HasKey(searchResults, q2)
                /\ SameMatch(MatchOf(q1), MatchOf(q2))

\* the bound of updateProjectSurvey: the initial fetch, one call per id to
\* deselect, a refresh and a select per target id, the verification fetch and
\* the publish call
UpdateBound == 1 + Len(SetOf(payload.answers_to_deselect)) + 2 * Len(SetOf(payload.answers)) + 2
\* the number of candidate siblings of the target: the valid, unselected answers
\* of its question, other than the target, in the draft first fetched
CandidateCount ==
    IF potentialPrereqs # <<>> THEN Len(potentialPrereqs)
    ELSE IF ~InDraft(draft, answerId) THEN 0
    ELSE Len(SelectSeq(PotentialPrereqs(draft, Find(draft, answerId).question),
                       LAMBDA id : id # answerId))
\* the resolver ran: the first draft showed the target unselected and not valid
ResolverRan == \E i \in 1..Len(log) : log[i].at \in {"aPrereq", "aRecheck", "aTarget"}
\* an upper bound of the remote calls the running call has still to issue
CallsLeft ==
    LET nD == Len(deselectIds)
        nT == Len(targetIds)
        k == Len(potentialPrereqs)
    IN CASE pc = "uGetDraft" -> UpdateBound
         [] pc = "uDeselect" -> (nD - idx + 1) + 2 * nT + 2
         [] pc = "uRefresh" -> 2 * (nT - idx + 1) + 2
         [] pc = "uSelect" -> 2 * (nT - idx) + 1 + 2
         [] pc = "uVerify" -> 2
         [] pc = "uCommit" -> 1
         [] pc = "aGetDraft" -> 3 * Len(DraftOrder) + 1
         [] pc = "aPrereq" -> 3 * (k - idx + 1)
         [] pc = "aRecheck" -> 3 * (k - idx) + 2
         [] pc = "aTarget" -> 3 * (k - idx) + 1
         [] pc = "aDirect" -> 1
         [] OTHER -> 0

\* C24 as stated: updateProjectSurvey issues at most
\* 1 + |answers_to_deselect| + 2*|answers| + 2 remote calls and
\* addAnswerToSurveyDraft at most 1 + 3*k, k the number of candidate siblings.
C24_AsStated ==
    /\ call = "update" => Len(log) <= UpdateBound
    /\ call = "add" => Len(log) <= 1 + 3 * CandidateCount

\* C24 amended: updateProjectSurvey issues at most
\* 1 + |answers_to_deselect| + 2*|answers| + 2 remote calls (distinct ids
\* counted); addAnswerToSurveyDraft issues at most 1 + 3*k calls when the
\* resolver runs over k candidate siblings and at most 2 calls, the fetch and one
\* select, otherwise.  Every step of a call, after a failed remote call too,
\* lowers the number of calls the call can still issue: no call is retried, no
\* loop position is visited twice, and the call ends.
C24_BoundedCalls ==
    /\ [](call = "update" => Len(log) + CallsLeft <= UpdateBound)
    /\ [](call = "add" =>
            /\ ResolverRan => Len(log) + CallsLeft <= 1 + 3 * Len(potentialPrereqs)
            /\ ~ResolverRan => Len(log) <= 2)
    /\ [][call # "none" =>
            /\ CallsLeft' < CallsLeft
            /\ Len(log') <= Len(log) + 1]_vars
    /\ [](CallsLeft = 0 <=> pc \in {"idle", "done", "thrown"})

\* C24 witness: an updateProjectSurvey call that returned after as many calls
\* as the bound allows, one of them rejected by the remote.
C24_Witness ==
    /\ call = "update" /\ pc = "done"
    /\ Len(targetIds) = 2 /\ Len(deselectIds) = 1
    /\ Len(log) = UpdateBound
    /\ \E i \in 1..Len(log) : log[i].outcome = "fail"

\* a second reachable case of C24: addAnswerToSurveyDraft for a valid target
\* without candidate siblings returned after two calls.
C24_WitnessDirect ==
    /\ call = "add" /\ pc = "done"
    /\ CandidateCount = 0 /\ ~ResolverRan
    /\ Len(log) = 2

\* C25: when addAnswerToSurveyDraft fails with the dependencies-unresolved
\* error, every sibling it selected during the attempt is still selected in the
\* draft: the call issues no deselect mutation, and no step of it removes an
\* answer from the draft's selection.
C25_SelectedSiblingsStay ==
    /\ []((call = "add" /\ thrown = "DependenciesUnresolved") =>
            /\ \A i \in PositionsAt("select", "aPrereq") :
                log[i].outcome = "ok" => log[i].id \in srvSelected
            /\ Positions("deselect") = {})
    /\ [][call = "add" => srvSelected \subseteq srvSelected']_vars

\* C25 witness: the call failed with the dependencies-unresolved error after a
\* sibling was selected, and the sibling is selected in the draft.
C25_Witness ==
    /\ call = "add" /\ thrown = "DependenciesUnresolved"
    /\ \E i \in PositionsAt("select", "aPrereq") :
        log[i].outcome = "ok" /\ log[i].id \in srvSelected
    /\ answerId \notin srvSelected

\* the step is a remote call of the sibling loop, issued at the program point at,
\* that the remote rejected
RejectedAt(at) ==
    /\ call = "add" /\ pc = at
    /\ Len(log') = Len(log) + 1
    /\ log'[Len(log')].outcome = "fail"

\* C26: inside the sibling loop a rejected re-fetch of the draft, and a rejected
\* select of the target after a sibling made it valid, are swallowed: the call
\* goes on with the select of the next candidate sibling, and when there is none
\* left it fails with the dependencies-unresolved error; a call that entered the
\* loop never fails with the error of a fetch or of a mutation.
C26_LoopSwallowsFailures ==
    /\ [][(RejectedAt("aRecheck") \/ RejectedAt("aTarget")) =>
            IF idx < Len(potentialPrereqs)
            THEN pc' = "aPrereq" /\ idx' = idx + 1 /\ thrown' = ""
            ELSE pc' = "thrown" /\ thrown' = "DependenciesUnresolved"]_vars
    /\ [](call = "add" =>
            \A i \in PositionsAt("fetch", "aRecheck") \cup PositionsAt("select", "aTarget") :
                (log[i].outcome = "fail" /\ i < Len(log)) =>
                    /\ log[i + 1].op = "select" /\ log[i + 1].at = "aPrereq"
                    /\ log[i + 1].id \in Range(potentialPrereqs) \ {answerId})
    /\ []((call = "add" /\ pc = "thrown" /\ ResolverRan) => thrown = "DependenciesUnresolved")

\* C26 witness: the target's select was rejected after a sibling had made the
\* target valid, and the next candidate sibling was selected.
C26_Witness ==
    /\ call = "add"
    /\ \E i \in PositionsAt("select", "aTarget") :
        /\ log[i].outcome = "fail" /\ i < Len(log)
        /\ log[i - 1].op = "fetch" /\ log[i - 1].outcome = "ok"
        /\ log[i + 1].op = "select" /\ log[i + 1].outcome = "ok"
        /\ log[i + 1].id \in srvSelected

\* further reachable cases of C26: a rejected re-fetch followed by the select of
\* the next sibling; a rejected select of the target at the last candidate, seen
\* by the caller as the dependencies-unresolved error.
C26_WitnessRefetch ==
    /\ call = "add"
    /\ \E i \in PositionsAt("fetch", "aRecheck") :
        log[i].outcome = "fail" /\ i < Len(log) /\ log[i + 1].op = "select"
C26_WitnessLast ==
    /\ call = "add" /\ pc = "thrown" /\ thrown = "DependenciesUnresolved"
    /\ LastCall.at = "aTarget" /\ LastCall.outcome = "fail"

\* the publish calls of the log that ended with the given outcome
Published(outcome) == { i \in Positions("commit") : log[i].outcome = outcome }

\* C29: in every result updateProjectSurvey returns, draftCommitted is true
\* exactly when survey_complete was requested and the publish call succeeded,
\* commitError is present exactly when it was requested and the publish call
\* failed, and success is true whatever errors and missingAnswers hold; no
\* publish call is issued when survey_complete was not requested.
C29_ResultFields ==
    /\ (call = "update" /\ pc = "done") =>
            /\ result.returned /\ result.success
            /\ result.draftCommitted <=> (payload.survey_complete /\ Published("ok") # {})
            /\ result.commitError <=> (payload.survey_complete /\ Published("fail") # {})
            /\ result.note <=> ~payload.survey_complete
            /\ ~(result.draftCommitted /\ result.commitError)
    /\ (call = "update" /\ ~payload.survey_complete) =>
            Positions("commit") = {} /\ srvCommitted = 0
    /\ (call = "update" /\ result.returned) => result.success

\* C29 witness: a returned result with errors and missing answers and success
\* true, survey_complete not requested: no publish call, draftCommitted false,
\* no commitError.
C29_Witness ==
    /\ call = "update" /\ pc = "done" /\ ~payload.survey_complete
    /\ ~result.errors.null /\ ~result.missingAnswers.null
    /\ result.success /\ ~result.draftCommitted /\ ~result.commitError
    /\ Positions("commit") = {}

\* a second reachable case of C29: the publish call was rejected.
C29_WitnessCommitError ==
    /\ call = "update" /\ pc = "done" /\ payload.survey_complete
    /\ result.success /\ result.commitError /\ ~result.draftCommitted
    /\ result.errors.null

\* the cache holds the empty list
CacheEmpty == ~libraryAnswersCache.null /\ libraryAnswersCache.items = <<>>
AllUnmatched(r) == \A i \in 1..Len(r) : r[i].value.null
LoadEnds == Len(loadedLists') = Len(loadedLists) + 1

\* C28: a loadLibraryAnswers call that fails leaves the empty list in the
\* cache, not null; a findAnswersByText call that finds the empty list there
\* triggers no load and resolves every query to no match; the cache holds the
\* list of the load that ended last, so the empty list stays until a later
\* loadLibraryAnswers call succeeds; a cache once set is never null again.
C28_FailedLoadLeavesEmptyList ==
    /\ [][(loadFailed' /\ ~loadFailed) => CacheEmpty']_vars
    /\ [][LoadEnds =>
            /\ ~libraryAnswersCache'.null
            /\ libraryAnswersCache'.items = loadedLists'[Len(loadedLists')]]_vars
    /\ [][~LoadEnds => libraryAnswersCache' = libraryAnswersCache]_vars
    /\ [][~libraryAnswersCache.null => ~libraryAnswersCache'.null]_vars
    /\ [][(findPc = "idle" /\ findPc' # "idle" /\ CacheEmpty) =>
            /\ findPc' = "done"
            /\ loads' = loads /\ loadedLists' = loadedLists
            /\ CacheEmpty'
            /\ Len(searchResults') > 0 /\ AllUnmatched(searchResults')]_vars

\* C28 witness: a loadLibraryAnswers call failed, and a findAnswersByText call
\* made after it, for a text every version of the library holds, returned no
\* match without loading.
C28_Witness ==
    /\ findPc = "done"
    /\ loadedLists = << <<>> >> /\ ~loadFailed
    /\ CacheEmpty
    /\ <<"a", "b">> \in Queries
    /\ AllUnmatched(searchResults)

\* a second reachable case of C28: after the failed load a later load succeeded,
\* and the call made after it found a match.
C28_WitnessReloaded ==
    /\ findPc = "done"
    /\ Len(loadedLists) = 2 /\ loadedLists[1] = <<>> /\ loadedLists[2] # <<>>
    /\ ~loadFailed
    /\ ~AllUnmatched(searchResults)

\* the failed_answers of the handler's result
FailedAnswers == IF toolResult.failed_answers.undefined THEN <<>> ELSE toolResult.failed_answers.value
\* the text resolved to the answer id
ResolvesTo(text, id) == ~Get(searchResults, text).null /\ Get(searchResults, text).id = id

\* C27: in the result of add_survey_answers_by_text every entry of
\* failed_answers carries a query text that resolved to the answer id whose
\* addition failed, and added_count plus the number of failed entries is the
\* number of matched ids.
C27_FailedAnswersCarryTheirText ==
    (tool = "add" /\ toolResult.returned) =>
        /\ Len(FailedAnswers) = Len(toolData.failedIds)
        /\ \A k \in 1..Len(FailedAnswers) :
            ResolvesTo(FailedAnswers[k].text, toolData.failedIds[k])
        /\ toolResult.added_count + Len(FailedAnswers) = Len(MatchedIds(searchResults))

\* C21: every session in the session map belongs to a transport that an
\* initialize request created, with an API key and a normalized host of the
\* allowlist; and an initialize request whose credentials are missing or whose
\* host is outside the allowlist creates no transport and no session: without
\* a session of its own it is answered 400 or 403.
SessionPermitted(sid) ==
    LET t == sessions[sid]
    IN /\ t \in 1..Len(transports)
       /\ transports[t].init
       /\ transports[t].apiKey # ""
       /\ transports[t].host \in Whitelist
       /\ transports[t].sessionId = Str(sid)
RefusedInit(answer) ==
    /\ answer.request /\ answer.init
    /\ answer.creds.null \/ answer.creds.host \notin Whitelist
C21_SessionsFromPermittedInit ==
    /\ [](\A sid \in DOMAIN sessions : SessionPermitted(sid))
    /\ [][RefusedInit(httpLast') =>
            /\ sessions' = sessions
            /\ transports' = transports
            /\ httpLast'.transport = 0 =>
                 httpLast'.status = IF httpLast'.creds.null THEN "400" ELSE "403"]_vars
\* a session exists, and the last request, an initialize request for a host
\* outside the allowlist, was answered 403
C21_Witness ==
    /\ sessions # <<>>
    /\ Len(transports) = 1
    /\ RefusedInit(httpLast)
    /\ ~httpLast.creds.null
    /\ httpLast.status = "403"
\* an initialize request without an API key was answered 400 next to a session
C21_WitnessMissing ==
    /\ sessions # <<>>
    /\ Len(transports) = 1
    /\ RefusedInit(httpLast)
    /\ httpLast.creds.null
    /\ httpLast.status = "400"

\* C30: a request that is not an initialize request is handed to a transport
\* exactly when its mcp-session-id is in the session map, and then to that
\* session's transport; otherwise it is answered 400 and the map and the
\* transports stay as they are.  The map holds the ids of the initialized
\* transports that have not closed.
InMap(sessionId) == IsString(sessionId) /\ sessionId.value \in DOMAIN sessions
MapIsOpenSessions ==
    /\ \A t \in 1..Len(transports) :
         transports[t].state = "initialized"
           <=> (InMap(transports[t].sessionId)
                /\ sessions[transports[t].sessionId.value] = t)
    /\ \A sid \in DOMAIN sessions :
         sessions[sid] \in 1..Len(transports)
         /\ transports[sessions[sid]].sessionId = Str(sid)
C30_NonInitNeedsSession ==
    /\ []MapIsOpenSessions
    /\ [][(httpLast'.request /\ ~httpLast'.init) =>
            IF InMap(httpLast'.sessionId)
            THEN /\ httpLast'.status = "transport"
                 /\ httpLast'.transport = sessions[httpLast'.sessionId.value]
            ELSE /\ httpLast'.status = "400"
                 /\ httpLast'.transport = 0
                 /\ sessions' = sessions
                 /\ transports' = transports]_vars
\* a request with the id of a session that has closed was answered 400 while
\* another session is open
C30_Witness ==
    /\ httpLast.request /\ ~httpLast.init
    /\ httpLast.status = "400"
    /\ sessions # <<>>
    /\ \E t \in 1..Len(transports) :
         /\ transports[t].state = "closed"
         /\ httpLast.sessionId = transports[t].sessionId
\* a request of an open session was handed to its transport
C30_WitnessDispatched ==
    /\ httpLast.request /\ ~httpLast.init
    /\ httpLast.status = "transport"
    /\ InMap(httpLast.sessionId)
    /\ sessions[httpLast.sessionId.value] = httpLast.transport

====
